---------------------------- MODULE Spec2Model ----------------------------
(***************************************************************************)
(* Target assignment and loss aggregation of utils/loss.py (rotated-box    *)
(* YOLO): the static builders (ComputeLoss.build_targets, find_3_positive, *)
(* find_5_positive), the dynamic (OTA) matcher and the loss aggregators.   *)
(*                                                                         *)
(* Numbers.  Ground-truth boxes are integers in input pixels.  A value in  *)
(* feature-grid units is the exact rational pixel/stride; the model keeps  *)
(* the pixel numerator and compares by cross-multiplication, so no         *)
(* fractional part is lost (strides are powers of two: the float32         *)
(* division of the code is exact on these values as well).                 *)
(***************************************************************************)
EXTENDS Integers, Sequences, FiniteSets, TLC

VARIABLES
    \* --- static builders
    targets,    \* the ground-truth tensor handed to the builder: a sequence of rows
    builder,    \* which static builder produced `indices` ("none" before any call)
    indices,    \* per layer, the sequence of candidates the builder emitted
    \* --- dynamic matcher, one image (the body of the batch_idx loop of build_targets)
    pair_wise_iou,       \* ground truth x candidate IoU, in halves (0, 1/2, 1)
    pair_wise_cls_loss,  \* ground truth x candidate classification cost, in 1/100
    matcher,             \* which dynamic builder ran ("none" before any call)
    dynamic_ks,          \* per ground truth, its dynamic k
    selected,            \* matching_matrix after the per-ground-truth top-k loop
    matching_matrix,     \* matching_matrix after conflict resolution
    fg_mask_inboxes,     \* per candidate, whether any ground truth holds it
    matched_gt_inds,     \* per held candidate, in order, the ground truth it goes to
    \* --- loss object (ComputeLoss / ComputeLossOTA / ComputeLossAuxOTA) and its calls
    loss_class,   \* the class of the loss object ("none" when there is none)
    head,         \* self.na, self.nc, self.nl, self.anchors, self.stride
    autobalance,  \* self.autobalance
    ssi,          \* self.ssi (0-based)
    balance,      \* self.balance, one rational per layer
    quality,      \* per ground-truth center, the IoU the predicted boxes reach (halves)
    history,      \* one record per finished call, oldest first
    \* --- SigmoidBin
    sigmoid_bin,  \* the fields of the SigmoidBin object (<<>> when there is none)
    bin_input,    \* the prediction and target tensors handed to the SigmoidBin
    bin_call      \* the last call of forward or training_loss (<<>> before any)

staticVars == <<targets, builder, indices>>
matchVars == <<pair_wise_iou, pair_wise_cls_loss, matcher, dynamic_ks, selected,
               matching_matrix, fg_mask_inboxes, matched_gt_inds>>
lossVars == <<loss_class, head, autobalance, ssi, balance, quality, history>>
binVars == <<sigmoid_bin, bin_input, bin_call>>
vars == <<staticVars, matchVars, lossVars, binVars>>

---------------------------------------------------------------------------
(* Detection-head configuration (det.nl, det.na, det.stride, det.anchors), *)
(* copied onto the loss object by __init__, and the prediction shapes.     *)

\* number of pyramid layers (det.nl)
nl == 3
\* anchors per layer (det.na)
na == 2
\* det.nc
nc == 2
\* det.stride
stride == <<8, 16, 32>>
\* det.anchors, per layer, (w, h) in feature-grid units
anchors == << <<  <<1, 1>>, <<2, 1>>  >>,
              <<  <<1, 1>>, <<2, 2>>  >>,
              <<  <<1, 1>>, <<4, 1>>  >> >>
\* p[i].shape[3] and p[i].shape[2] for a 64 x 32 input
grid_w == <<8, 4, 2>>
grid_h == <<4, 2, 1>>
\* hyp['anchor_t']
anchor_t == 4

Layers == 1..nl

\* for k in 'na', 'nc', 'nl', 'anchors': setattr(self, k, getattr(det, k)), and
\* self.stride = det.stride
DetFields == [na |-> na, nc |-> nc, nl |-> nl, anchors |-> anchors, stride |-> stride]

---------------------------------------------------------------------------
(* Ground-truth rows: [img, cls, cx, cy, w, h, theta, label_1..label_n].   *)

\* length of the angle-label vector carried by a row
NLabel == 1
\* most rows of one target tensor
MaxTargets == 2

IMG == 1
CLS == 2
CX == 3
CY == 4
GW == 5
GH == 6
THETA == 7

CxVals == {-18, 12, 16, 27, 66}
CyVals == {16, 21, 35}
\* (w, h, class, theta): a box every layer accepts, and one only layer 3 accepts
ShapeVals == { <<16, 16, 0, 0>>, <<128, 16, 1, -1>> }

RECURSIVE Repeat(_, _)
Repeat(x, n) == IF n = 0 THEN <<>> ELSE <<x>> \o Repeat(x, n - 1)

GTRows == { <<0, s[3], x, y, s[1], s[2], s[4]>> \o Repeat(1, NLabel) :
              x \in CxVals, y \in CyVals, s \in ShapeVals }

RowLen == 7 + NLabel

RECURSIVE SeqsUpTo(_, _)
SeqsUpTo(S, n) ==
    IF n = 0 THEN { <<>> }
    ELSE LET shorter == SeqsUpTo(S, n - 1)
         IN  shorter \cup { Append(q, x) : q \in { r \in shorter : Len(r) = n - 1 }, x \in S }

TargetInputs == SeqsUpTo(GTRows, MaxTargets)

---------------------------------------------------------------------------
(* Helpers for the tensor operations the builders use.                     *)

\* a function on 1..n as a sequence value (its entries computed once)
AsSeq(f) == <<>> \o f

RECURSIVE Flatten(_)
Flatten(ss) == IF ss = <<>> THEN <<>> ELSE Head(ss) \o Flatten(Tail(ss))

\* Tensor.long(): truncation toward zero, of the rational n/d (d > 0)
Long(n, d) == IF n >= 0 THEN n \div d ELSE -((-n) \div d)

\* Tensor.clamp_(lo, hi)
clamp(x, lo, hi) == IF x < lo THEN lo ELSE IF x > hi THEN hi ELSE x


\* Non-negative rationals as <<numerator, denominator>>; denominator 0 is +inf
\* (the float division w / 0).
RatLT(x, y) == x[1] * y[2] < y[1] * x[2]
RatMax(x, y) == IF RatLT(x, y) THEN y ELSE x
RatInv(x) == <<x[2], x[1]>>

\* Python's negative indexing into a sequence of length n (1-based result)
PyIndex(a, n) == IF a < 0 THEN a + n + 1 ELSE a + 1

---------------------------------------------------------------------------
(* The part the four static builders share, line for line: append the      *)
(* anchor index, scale by the stride, shape gate, neighbour offsets.       *)

\* targets = cat(targets.repeat(na, 1, 1), ai[:, :, None]): (na, nt, c+1)
AppendAnchorIndices(tg) ==
    AsSeq([a \in 1..na |-> AsSeq([k \in 1..Len(tg) |-> [row |-> Append(tg[k], a - 1), k |-> k]])])

\* ShapeGate with the comparison written as <= (a pair exactly at the threshold kept)
ShapeGateInclusive(row, i, a) ==
    LET rw == <<row[GW], stride[i] * anchors[i][a][1]>>
        rh == <<row[GH], stride[i] * anchors[i][a][2]>>
        m  == RatMax(RatMax(rw, RatInv(rw)), RatMax(rh, RatInv(rh)))
    IN  ~RatLT(<<anchor_t, 1>>, m)

\* r = t[:, :, 4:6] / anchors[:, None];  j = max(r, 1/r).max(2)[0] < anchor_t
\* for the row of ground truth `row` and anchor a of layer i
ShapeGate(row, i, a) ==
    LET rw == <<row[GW], stride[i] * anchors[i][a][1]>>
        rh == <<row[GH], stride[i] * anchors[i][a][2]>>
        m  == RatMax(RatMax(rw, RatInv(rw)), RatMax(rh, RatInv(rh)))
    IN  RatLT(m, <<anchor_t, 1>>)

\* t = t[j]: the rows that pass, anchor-major
ShapeFilter(t, i) ==
    Flatten(AsSeq([a \in 1..na |-> SelectSeq(t[a], LAMBDA e : ShapeGate(e.row, i, a))]))

FilterByShape(tg, i) == ShapeFilter(AppendAnchorIndices(tg), i)

\* (v % 1 < g) & (v > 1) for v = n / stride[i] and bias g = gNum / gDen
NearLowEdge(n, i, gNum, gDen) ==
    /\ (n % stride[i]) * gDen < gNum * stride[i]
    /\ n > stride[i]

\* j = stack((ones_like(j), j, k, l, m)): row o of the mask for one entry
OffsetMask(e, i, o, gNum, gDen) ==
    LET cx == e.row[CX]
        cy == e.row[CY]
        xi == grid_w[i] * stride[i] - cx
        yi == grid_h[i] * stride[i] - cy
    IN  CASE o = 1 -> TRUE
          [] o = 2 -> NearLowEdge(cx, i, gNum, gDen)
          [] o = 3 -> NearLowEdge(cy, i, gNum, gDen)
          [] o = 4 -> NearLowEdge(xi, i, gNum, gDen)
          [] o = 5 -> NearLowEdge(yi, i, gNum, gDen)

\* off = [[0,0],[1,0],[0,1],[-1,0],[0,-1]] (times g)
off == << <<0, 0>>, <<1, 0>>, <<0, 1>>, <<-1, 0>>, <<0, -1>> >>

\* t = t.repeat((5,1,1))[j] with its offsets, then gij = (gxy - offsets).long():
\* offset-major; each entry keeps its row, its ground truth k, its offset o
OffsetRows(kept, i, o, gNum, gDen) ==
    AsSeq([n \in 1..Len(kept) |->
       [row |-> kept[n].row, k |-> kept[n].k, o |-> o,
        gij |-> << Long(kept[n].row[CX] * gDen - off[o][1] * gNum * stride[i],
                        stride[i] * gDen),
                   Long(kept[n].row[CY] * gDen - off[o][2] * gNum * stride[i],
                        stride[i] * gDen) >>]])

OffsetsOf(t, i, gNum, gDen) ==
    Flatten(AsSeq([o \in 1..5 |->
               OffsetRows(SelectSeq(t, LAMBDA e : OffsetMask(e, i, o, gNum, gDen)),
                          i, o, gNum, gDen)]))

Offsets(tg, i, gNum, gDen) == OffsetsOf(FilterByShape(tg, i), i, gNum, gDen)

\* ClampGj with the row clamped by the grid width (feature_wh[0] for feature_wh[1])
ClampGjByWidth(gj, i) == clamp(gj, 0, grid_w[i] - 1)

\* gj.clamp_(0, feature_wh[1] - 1), gi.clamp_(0, feature_wh[0] - 1)
ClampGj(gj, i) == clamp(gj, 0, grid_h[i] - 1)
ClampGi(gi, i) == clamp(gi, 0, grid_w[i] - 1)

\* torch.cat((gxy - gij, gwh), 1), in units of 1/stride[i]
EncodeBox(row, gij, i) ==
    << row[CX] - gij[1] * stride[i], row[CY] - gij[2] * stride[i], row[GW], row[GH] >>

\* t[:, 7:-1]
LabelsOf(row) == SubSeq(row, 8, Len(row) - 1)

---------------------------------------------------------------------------
(* ComputeLoss.build_targets: g = 0.5; the clamp is in place on the views  *)
(* gi, gj of gij and runs before tbox is computed, so tbox is relative to  *)
(* the clamped cell.                                                       *)
build_targets_candidate(e, i) ==
    LET gi == ClampGi(e.gij[1], i)
        gj == ClampGj(e.gij[2], i)
        a  == e.row[Len(e.row)]
    IN  [b |-> e.row[IMG], a |-> a, gj |-> gj, gi |-> gi,
         tbox |-> EncodeBox(e.row, <<gi, gj>>, i),
         anch |-> anchors[i][PyIndex(a, na)],
         tcls |-> e.row[CLS],
         tgaussian_theta |-> LabelsOf(e.row),
         k |-> e.k, o |-> e.o]

\* the rows t of layer i, each turned into the candidate the builder emits
build_targets_rows(t, i) == AsSeq([n \in 1..Len(t) |-> build_targets_candidate(t[n], i)])

\* FirstAnchorRows giving one all-zero row whatever the targets
FirstAnchorRowsPlaceholder(tg, i) ==
    << [row |-> AsSeq([c \in 1..(RowLen + 1) |-> 0]), k |-> 0, o |-> 1, gij |-> <<0, 0>>] >>

\* else: t = targets[0]; offsets = 0: the rows of the copy of anchor 0, ungated,
\* with the zero offset
FirstAnchorRows(tg, i) == OffsetRows(AppendAnchorIndices(tg)[1], i, 1, 1, 2)

build_targets(tg) ==
    AsSeq([i \in Layers |->
       IF Len(tg) = 0 THEN build_targets_rows(FirstAnchorRows(tg, i), i)
       ELSE build_targets_rows(Offsets(tg, i, 1, 2), i)])

(* ComputeLossOTA.find_3_positive: g = 0.5; tbox is computed from gij      *)
(* before the in-place clamp.                                              *)
find_3_positive_candidate(e, i) ==
    LET a == e.row[Len(e.row)]
    IN  [b |-> e.row[IMG], a |-> a,
         gj |-> ClampGj(e.gij[2], i), gi |-> ClampGi(e.gij[1], i),
         tbox |-> EncodeBox(e.row, e.gij, i),
         anch |-> anchors[i][PyIndex(a, na)],
         k |-> e.k, o |-> e.o]

\* the rows t of layer i, each turned into the candidate the builder emits
find_3_positive_rows(t, i) == AsSeq([n \in 1..Len(t) |-> find_3_positive_candidate(t[n], i)])

find_3_positive(tg) ==
    AsSeq([i \in Layers |->
       IF Len(tg) = 0 THEN <<>>
       ELSE find_3_positive_rows(Offsets(tg, i, 1, 2), i)])

(* ComputeLossAuxOTA.find_3_positive: the same text as ComputeLossOTA's.   *)
aux_find_3_positive_candidate(e, i) ==
    LET a == e.row[Len(e.row)]
    IN  [b |-> e.row[IMG], a |-> a,
         gj |-> ClampGj(e.gij[2], i), gi |-> ClampGi(e.gij[1], i),
         tbox |-> EncodeBox(e.row, e.gij, i),
         anch |-> anchors[i][PyIndex(a, na)],
         k |-> e.k, o |-> e.o]

\* the rows t of layer i, each turned into the candidate the builder emits
aux_find_3_positive_rows(t, i) == AsSeq([n \in 1..Len(t) |-> aux_find_3_positive_candidate(t[n], i)])

aux_find_3_positive(tg) ==
    AsSeq([i \in Layers |->
       IF Len(tg) = 0 THEN <<>>
       ELSE aux_find_3_positive_rows(Offsets(tg, i, 1, 2), i)])

(* ComputeLossAuxOTA.find_5_positive: g = 1.0, and the anchor index is     *)
(* read from column 6 of the row (a = t[:, 6].long()).                     *)
find_5_positive_candidate(e, i) ==
    LET a == e.row[THETA]
    IN  [b |-> e.row[IMG], a |-> a,
         gj |-> ClampGj(e.gij[2], i), gi |-> ClampGi(e.gij[1], i),
         tbox |-> EncodeBox(e.row, e.gij, i),
         anch |-> anchors[i][PyIndex(a, na)],
         k |-> e.k, o |-> e.o]

\* the rows t of layer i, each turned into the candidate the builder emits
find_5_positive_rows(t, i) == AsSeq([n \in 1..Len(t) |-> find_5_positive_candidate(t[n], i)])

\* find_5_positive with the bias g = 0.5 of find_3_positive
find_5_positive_half_bias(tg) ==
    AsSeq([i \in Layers |->
       IF Len(tg) = 0 THEN <<>>
       ELSE find_5_positive_rows(Offsets(tg, i, 1, 2), i)])

find_5_positive(tg) ==
    AsSeq([i \in Layers |->
       IF Len(tg) = 0 THEN <<>>
       ELSE find_5_positive_rows(Offsets(tg, i, 1, 1), i)])

---------------------------------------------------------------------------
(* Specification of the static builders: the target tensor is drawn from  *)
(* TargetInputs, and a step is one call of a builder on it.                *)

NoIndices == AsSeq([i \in Layers |-> <<>>])

MatchIdle ==
    /\ pair_wise_iou = <<>>
    /\ pair_wise_cls_loss = <<>>
    /\ matcher = "none"
    /\ dynamic_ks = <<>>
    /\ selected = <<>>
    /\ matching_matrix = <<>>
    /\ fg_mask_inboxes = <<>>
    /\ matched_gt_inds = <<>>

BinIdle ==
    /\ sigmoid_bin = <<>>
    /\ bin_input = <<>>
    /\ bin_call = <<>>

LossIdle ==
    /\ loss_class = "none"
    /\ head = <<>>
    /\ autobalance = FALSE
    /\ ssi = 0
    /\ balance = <<>>
    /\ quality = <<>>
    /\ history = <<>>

InitStatic ==
    /\ targets \in TargetInputs
    /\ builder = "none"
    /\ indices = NoIndices
    /\ MatchIdle
    /\ LossIdle
    /\ BinIdle

CallBuildTargets ==
    /\ builder = "none"
    /\ builder' = "build_targets"
    /\ indices' = build_targets(targets)
    /\ UNCHANGED <<targets, matchVars, lossVars, binVars>>

CallFind3Positive ==
    /\ builder = "none"
    /\ builder' = "find_3_positive"
    /\ indices' = find_3_positive(targets)
    /\ UNCHANGED <<targets, matchVars, lossVars, binVars>>

CallAuxFind3Positive ==
    /\ builder = "none"
    /\ builder' = "aux_find_3_positive"
    /\ indices' = aux_find_3_positive(targets)
    /\ UNCHANGED <<targets, matchVars, lossVars, binVars>>

CallFind5Positive ==
    /\ builder = "none"
    /\ builder' = "find_5_positive"
    /\ indices' = find_5_positive(targets)
    /\ UNCHANGED <<targets, matchVars, lossVars, binVars>>

NextStatic ==
    \/ CallBuildTargets
    \/ CallFind3Positive
    \/ CallAuxFind3Positive
    \/ CallFind5Positive

SpecStatic == InitStatic /\ [][NextStatic]_vars

---------------------------------------------------------------------------
(* Properties of the static builders.                                      *)

ThreeCandidateBuilders == {"build_targets", "find_3_positive", "aux_find_3_positive"}

\* the candidates of layer i that come from ground truth k and anchor a (1-based)
PairCandidates(i, k, a) ==
    { n \in 1..Len(indices[i]) : indices[i][n].k = k /\ indices[i][n].a = a - 1 }

\* the shape ratio test, written out on the four ratios w/aw, aw/w, h/ah, ah/h
RatioBelowThreshold(k, i, a) ==
    LET w  == targets[k][GW]
        h  == targets[k][GH]
        aw == stride[i] * anchors[i][a][1]
        ah == stride[i] * anchors[i][a][2]
    IN  /\ w < anchor_t * aw
        /\ aw < anchor_t * w
        /\ h < anchor_t * ah
        /\ ah < anchor_t * h

CenterInsideMap(k, i) ==
    /\ 0 <= targets[k][CX] /\ targets[k][CX] < grid_w[i] * stride[i]
    /\ 0 <= targets[k][CY] /\ targets[k][CY] < grid_h[i] * stride[i]

\* C1: in the builders with bias g = 0.5, every (ground truth, anchor) pair that
\* passes the shape gate at a layer yields at least 1 and at most 3 candidates
\* at that layer, one of them in the cell that contains the ground-truth center.
C1_OneToThreeCandidates ==
    builder \in ThreeCandidateBuilders =>
        \A i \in Layers, k \in 1..Len(targets), a \in 1..na :
            RatioBelowThreshold(k, i, a) =>
                /\ Cardinality(PairCandidates(i, k, a)) \in 1..3
                /\ \E n \in PairCandidates(i, k, a) :
                       CenterInsideMap(k, i) =>
                           /\ indices[i][n].gi = targets[k][CX] \div stride[i]
                           /\ indices[i][n].gj = targets[k][CY] \div stride[i]

\* C2: at each layer a (ground truth, anchor) pair has candidates iff
\* max(w/aw, aw/w, h/ah, ah/h) on the stride-scaled box is strictly below
\* anchor_t; a ground truth that fails for every anchor of a layer has no
\* candidate there, whatever it has at the other layers.
C2_ShapeGateIff ==
    builder \in ThreeCandidateBuilders =>
        \A i \in Layers, k \in 1..Len(targets), a \in 1..na :
            (PairCandidates(i, k, a) # {}) <=> RatioBelowThreshold(k, i, a)

\* a ground truth rejected by every anchor of one layer, kept at another layer,
\* and one rejected exactly at the threshold (ratio = anchor_t)
C2_Witness ==
    /\ builder \in ThreeCandidateBuilders
    /\ \E k \in 1..Len(targets), i, i2 \in Layers :
          /\ \A a \in 1..na : ~RatioBelowThreshold(k, i, a)
          /\ \A n \in 1..Len(indices[i]) : indices[i][n].k # k
          /\ \E n \in 1..Len(indices[i2]) : indices[i2][n].k = k
          /\ \E a \in 1..na : targets[k][GW] = anchor_t * stride[i] * anchors[i][a][1]

\* C3: every candidate of every static builder has its row in [0, grid_h-1]
\* and its column in [0, grid_w-1], wherever the ground-truth center lies.
C3_GridIndicesInRange ==
    \A i \in Layers : \A n \in 1..Len(indices[i]) :
        /\ indices[i][n].gj \in 0..(grid_h[i] - 1)
        /\ indices[i][n].gi \in 0..(grid_w[i] - 1)

\* candidates were emitted for a center left of the first column (index -2
\* before the clamp) and for one beyond the last column and the last row
C3_Witness ==
    /\ builder = "find_5_positive"
    /\ \E i \in Layers : \E n, m \in 1..Len(indices[i]) :
          /\ targets[indices[i][n].k][CX] < -stride[i]
          /\ indices[i][n].gi = 0
          /\ targets[indices[i][m].k][CX] >= grid_w[i] * stride[i]
          /\ targets[indices[i][m].k][CY] >= grid_h[i] * stride[i]
          /\ indices[i][m].gi = grid_w[i] - 1
          /\ indices[i][m].gj = grid_h[i] - 1

\* the candidates find_5_positive emitted at layer i for ground truth k and
\* anchor a (1-based): the rows of t that carry k and the appended index a - 1
Find5Pair(i, k, a) ==
    { n \in 1..Len(indices[i]) :
        /\ indices[i][n].k = k
        /\ Offsets(targets, i, 1, 1)[n].row[RowLen + 1] = a - 1 }

\* the cells (column, row) the claim names for a center inside the map of layer
\* i: the cell of the center, the left and upper neighbours where the
\* coordinate exceeds 1, the right and lower ones where grid_dim minus the
\* coordinate exceeds 1
Find5Cells(k, i) ==
    LET cx == targets[k][CX]
        cy == targets[k][CY]
        s  == stride[i]
    IN  { <<cx \div s, cy \div s>> }
          \cup (IF cx > s THEN { <<(cx \div s) - 1, cy \div s>> } ELSE {})
          \cup (IF cy > s THEN { <<cx \div s, (cy \div s) - 1>> } ELSE {})
          \cup (IF grid_w[i] * s - cx > s THEN { <<(cx \div s) + 1, cy \div s>> } ELSE {})
          \cup (IF grid_h[i] * s - cy > s THEN { <<cx \div s, (cy \div s) + 1>> } ELSE {})

\* how many of the four neighbour conditions hold, plus one for the center
Find5Count(k, i) ==
    1 + (IF targets[k][CX] > stride[i] THEN 1 ELSE 0)
      + (IF targets[k][CY] > stride[i] THEN 1 ELSE 0)
      + (IF grid_w[i] * stride[i] - targets[k][CX] > stride[i] THEN 1 ELSE 0)
      + (IF grid_h[i] * stride[i] - targets[k][CY] > stride[i] THEN 1 ELSE 0)

\* C22: in find_5_positive every (ground truth, anchor) pair that passes the
\* shape gate at a layer yields between 1 and 5 candidates there: one for the
\* center and one for each neighbour condition that holds, whatever the
\* fractional position; for a center inside the map they lie in the cell of the
\* center and in the neighbour cells of the conditions that hold.
C22_OneToFiveCandidates ==
    builder = "find_5_positive" =>
        \A i \in Layers, k \in 1..Len(targets), a \in 1..na :
            RatioBelowThreshold(k, i, a) =>
                /\ Cardinality(Find5Pair(i, k, a)) \in 1..5
                /\ Cardinality(Find5Pair(i, k, a)) = Find5Count(k, i)
                /\ CenterInsideMap(k, i) =>
                      { <<indices[i][n].gi, indices[i][n].gj>> : n \in Find5Pair(i, k, a) }
                          = Find5Cells(k, i)

\* find_5_positive gave one pair five candidates for a center half-way into its
\* cell, and another pair only two
C22_Witness ==
    /\ builder = "find_5_positive"
    /\ \E i, i2 \in Layers, k, k2 \in 1..Len(targets), a, a2 \in 1..na :
          /\ RatioBelowThreshold(k, i, a)
          /\ CenterInsideMap(k, i)
          /\ 2 * (targets[k][CX] % stride[i]) >= stride[i]
          /\ Cardinality(Find5Pair(i, k, a)) = 5
          /\ RatioBelowThreshold(k2, i2, a2)
          /\ Cardinality(Find5Pair(i2, k2, a2)) = 2

\* the rows t of layer i the builder that ran turned into its candidates, each
\* with the anchor index appended to it as its last entry
BuilderRows(i) ==
    IF builder = "find_5_positive" THEN Offsets(targets, i, 1, 1)
    ELSE Offsets(targets, i, 1, 2)

\* C25: in every static builder the anchor index of a candidate is the index,
\* in 0..na-1, of the anchor that passed the ratio gate for the candidate's
\* ground truth, and the anchor shape of the candidate is the shape of that
\* anchor.
C25_AnchorIndex ==
    builder # "none" =>
        \A i \in Layers : \A n \in 1..Len(indices[i]) :
            /\ indices[i][n].a \in 0..(na - 1)
            /\ indices[i][n].a = BuilderRows(i)[n].row[RowLen + 1]
            /\ RatioBelowThreshold(indices[i][n].k, i, indices[i][n].a + 1)
            /\ indices[i][n].anch = anchors[i][indices[i][n].a + 1]

\* C28: for every candidate of every static builder the xy part of tbox is the
\* ground-truth center in grid units minus the emitted (clamped) cell, and
\* ComputeLoss.build_targets and find_3_positive encode the same box for every
\* input.
C28_BoxRelativeToEmittedCell ==
    (builder # "none" /\ Len(targets) > 0) =>
        \A i \in Layers :
            /\ \A n \in 1..Len(indices[i]) :
                  LET r == indices[i][n]
                  IN  /\ r.tbox[1] = targets[r.k][CX] - r.gi * stride[i]
                      /\ r.tbox[2] = targets[r.k][CY] - r.gj * stride[i]
            /\ Len(build_targets(targets)[i]) = Len(find_3_positive(targets)[i])
            /\ \A n \in 1..Len(find_3_positive(targets)[i]) :
                  build_targets(targets)[i][n].tbox = find_3_positive(targets)[i][n].tbox

---------------------------------------------------------------------------
(* The dynamic (OTA) matcher: the part of the batch_idx loop of            *)
(* build_targets / build_targets2 from pair_wise_iou to matched_gt_inds.   *)
(* IoU values are held in halves, costs in hundredths.                     *)

\* the k of torch.topk(pair_wise_iou, min(10, n)) in ComputeLossOTA.build_targets
OTA_TOPK == 10
\* the k of torch.topk(pair_wise_iou, min(20, n)) in ComputeLossAuxOTA
AUX_TOPK == 20

Min(a, b) == IF a < b THEN a ELSE b
Max(a, b) == IF a > b THEN a ELSE b

RECURSIVE SumSeq(_)
SumSeq(q) == IF q = <<>> THEN 0 ELSE Head(q) + SumSeq(Tail(q))

RemoveAt(q, n) == SubSeq(q, 1, n - 1) \o SubSeq(q, n + 1, Len(q))

\* torch.topk(row, k)[0].sum(): the sum of the k largest entries
RECURSIVE SumLargest(_, _)
SumLargest(row, k) ==
    IF k = 0 \/ row = <<>> THEN 0
    ELSE LET m == CHOOSE n \in 1..Len(row) : \A n2 \in 1..Len(row) : row[n2] <= row[n]
         IN  row[m] + SumLargest(RemoveAt(row, m), k - 1)

\* Tensor.int() of a non-negative value held in halves
IntPart(h) == h \div 2

\* DynamicK summing every IoU of the row (no top-k cap)
DynamicKUncapped(row, topk) == Max(IntPart(SumSeq(row)), 1)

\* dynamic_ks = torch.clamp(top_k.sum(1).int(), min=1), for one ground truth
DynamicK(row, topk) == Max(IntPart(SumLargest(row, Min(topk, Len(row)))), 1)

\* -torch.log(pair_wise_iou + 1e-8) in hundredths
IouLoss(v) == CASE v = 0 -> 1842
                [] v = 1 -> 69
                [] v = 2 -> 0

\* cost = pair_wise_cls_loss + 3.0 * pair_wise_iou_loss
Cost(iou, cls) ==
    AsSeq([g \in 1..Len(iou) |-> AsSeq([c \in 1..Len(iou[g]) |-> cls[g][c] + 3 * IouLoss(iou[g][c])])])

\* LowestK selecting every candidate, whatever k
LowestKUnbounded(costRow, k) == { 1..Len(costRow) }

\* torch.topk(cost[gt_idx], k, largest=False)[1]: every index set of size k that
\* no cheaper candidate is left out of (the order among equal costs is not
\* specified by torch.topk)
LowestK(costRow, k) ==
    LET idx      == 1..Len(costRow)
        below(v) == { c \in idx : costRow[c] < v }
        upto(v)  == { c \in idx : costRow[c] <= v }
        t        == CHOOSE v \in { costRow[c] : c \in idx } :
                        Cardinality(below(v)) < k /\ k <= Cardinality(upto(v))
    IN  { below(t) \cup X :
            X \in { Y \in SUBSET (upto(t) \ below(t)) :
                      Cardinality(Y) = k - Cardinality(below(t)) } }

\* the results the loop `for gt_idx in range(num_gt)` can leave in matching_matrix
RECURSIVE TopKSelections(_, _, _)
TopKSelections(cost, ks, g) ==
    IF g = 0 THEN { <<>> }
    ELSE { Append(q, AsSeq([c \in 1..Len(cost[g]) |-> IF c \in S THEN 1 ELSE 0])) :
             q \in TopKSelections(cost, ks, g - 1), S \in LowestK(cost[g], ks[g]) }

\* anchor_matching_gt = matching_matrix.sum(0)
ColumnSum(m, c) == SumSeq(AsSeq([g \in 1..Len(m) |-> m[g][c]]))

\* CostArgmin taking the highest cost (torch.max for torch.min)
CostArgmax(cost, c) ==
    CHOOSE g \in 1..Len(cost) :
        /\ \A g2 \in 1..Len(cost) : cost[g][c] >= cost[g2][c]
        /\ \A g2 \in 1..(g - 1) : cost[g2][c] < cost[g][c]

\* torch.min(cost[:, c], dim=0)[1]: the first ground truth of lowest cost
CostArgmin(cost, c) ==
    CHOOSE g \in 1..Len(cost) :
        /\ \A g2 \in 1..Len(cost) : cost[g][c] <= cost[g2][c]
        /\ \A g2 \in 1..(g - 1) : cost[g2][c] > cost[g][c]

\* ResolveConflicts without the line that clears the contested columns
ResolveWithoutClearing(m, cost) ==
    AsSeq([g \in 1..Len(m) |->
       AsSeq([c \in 1..Len(m[g]) |->
          IF ColumnSum(m, c) > 1 /\ g = CostArgmin(cost, c) THEN 1 ELSE m[g][c]])])

\* if (anchor_matching_gt > 1).sum() > 0: clear the contested columns and set
\* matching_matrix[cost_argmin, contested] = 1.0
ResolveConflicts(m, cost) ==
    AsSeq([g \in 1..Len(m) |->
       AsSeq([c \in 1..Len(m[g]) |->
          IF ColumnSum(m, c) > 1
          THEN (IF g = CostArgmin(cost, c) THEN 1 ELSE 0)
          ELSE m[g][c]])])

\* FgMask keeping only the columns held more than once
FgMaskContested(m) == AsSeq([c \in 1..Len(m[1]) |-> ColumnSum(m, c) > 1])

\* fg_mask_inboxes = matching_matrix.sum(0) > 0.0
FgMask(m) == AsSeq([c \in 1..Len(m[1]) |-> ColumnSum(m, c) > 0])

\* matching_matrix[:, c].argmax(0): the first row holding the column's maximum
ColumnArgmax(m, c) ==
    CHOOSE g \in 1..Len(m) :
        /\ \A g2 \in 1..Len(m) : m[g2][c] <= m[g][c]
        /\ \A g2 \in 1..(g - 1) : m[g2][c] < m[g][c]

\* the indices of a boolean mask, in order
RECURSIVE MaskIndices(_, _)
MaskIndices(mask, n) ==
    IF n = 0 THEN <<>>
    ELSE IF mask[n] THEN Append(MaskIndices(mask, n - 1), n) ELSE MaskIndices(mask, n - 1)

\* matched_gt_inds = matching_matrix[:, fg_mask_inboxes].argmax(0)
ArgmaxAt(m, cols) == AsSeq([n \in 1..Len(cols) |-> ColumnArgmax(m, cols[n])])

MatchedGtInds(m) == ArgmaxAt(m, MaskIndices(FgMask(m), Len(m[1])))

---------------------------------------------------------------------------
(* Specification of the matcher.  The IoU and classification-cost matrices *)
(* of one image are drawn from MatchInputs: every matrix of at most        *)
(* MaxCells entries over PairVals, and single-ground-truth rows one longer *)
(* than each top-k cap, so that the cap is exercised.                      *)

\* most entries (ground truths x candidates) of an exhaustively drawn matrix
MaxCells == 6

\* (IoU in halves, classification cost in hundredths) of one entry
PairVals == { <<0, 0>>, <<1, 0>>, <<2, 0>>, <<2, 300>> }

SmallShapes == { gn \in (1..MaxCells) \X (1..MaxCells) : gn[1] * gn[2] <= MaxCells }

SmallInputs ==
    UNION { { [iou |-> AsSeq([g \in 1..gn[1] |-> AsSeq([c \in 1..gn[2] |-> m[g][c][1]])]),
               cls |-> AsSeq([g \in 1..gn[1] |-> AsSeq([c \in 1..gn[2] |-> m[g][c][2]])])] :
              m \in [1..gn[1] -> [1..gn[2] -> PairVals]] } : gn \in SmallShapes }

\* one ground truth, n candidates: the first m have IoU v, the others 0; the
\* classification costs are pairwise different
WideInputs ==
    { [iou |-> << AsSeq([c \in 1..n |-> IF c <= m THEN v ELSE 0]) >>,
       cls |-> << AsSeq([c \in 1..n |-> c]) >>] :
        n \in {OTA_TOPK + 1, AUX_TOPK + 1}, m \in 0..(AUX_TOPK + 1), v \in {1, 2} }

MatchInputs == SmallInputs \cup WideInputs

StaticIdle ==
    /\ targets = <<>>
    /\ builder = "none"
    /\ indices = NoIndices

InitMatch ==
    /\ StaticIdle
    /\ \E inp \in MatchInputs :
          /\ pair_wise_iou = inp.iou
          /\ pair_wise_cls_loss = inp.cls
    /\ matcher = "none"
    /\ dynamic_ks = <<>>
    /\ selected = <<>>
    /\ matching_matrix = <<>>
    /\ fg_mask_inboxes = <<>>
    /\ matched_gt_inds = <<>>
    /\ LossIdle
    /\ BinIdle

\* lines 552-594 with the top-k cap `topk`
Match(name, topk) ==
    LET cost == Cost(pair_wise_iou, pair_wise_cls_loss)
        ks   == AsSeq([g \in 1..Len(pair_wise_iou) |-> DynamicK(pair_wise_iou[g], topk)])
    IN  /\ matcher = "none"
        /\ matcher' = name
        /\ dynamic_ks' = ks
        /\ \E sel \in TopKSelections(cost, ks, Len(cost)) :
              /\ selected' = sel
              /\ matching_matrix' = ResolveConflicts(sel, cost)
              /\ fg_mask_inboxes' = FgMask(ResolveConflicts(sel, cost))
              /\ matched_gt_inds' = MatchedGtInds(ResolveConflicts(sel, cost))
        /\ UNCHANGED <<staticVars, pair_wise_iou, pair_wise_cls_loss, lossVars, binVars>>

\* ComputeLossOTA.build_targets, matching step
OTA_build_targets == Match("ComputeLossOTA.build_targets", OTA_TOPK)

\* ComputeLossAuxOTA.build_targets, matching step
Aux_build_targets == Match("ComputeLossAuxOTA.build_targets", AUX_TOPK)

\* ComputeLossAuxOTA.build_targets2, matching step
Aux_build_targets2 == Match("ComputeLossAuxOTA.build_targets2", AUX_TOPK)

NextMatch ==
    \/ OTA_build_targets
    \/ Aux_build_targets
    \/ Aux_build_targets2

SpecMatch == InitMatch /\ [][NextMatch]_vars

---------------------------------------------------------------------------
(* Properties of the matcher.                                              *)

GTs == 1..Len(pair_wise_iou)
Candidates == 1..Len(pair_wise_iou[1])

\* the ground truths holding candidate c in matrix m
Claimants(m, c) == { g \in 1..Len(m) : m[g][c] = 1 }

\* C4: after conflict resolution every candidate column is claimed by at most
\* one ground truth, and matched_gt_inds names, for each held candidate in
\* order, exactly that ground truth.
C4_OneGroundTruthPerCandidate ==
    matcher # "none" =>
        LET held == MaskIndices(fg_mask_inboxes, Len(fg_mask_inboxes))
        IN  /\ \A c \in Candidates : Cardinality(Claimants(matching_matrix, c)) <= 1
            /\ \A c \in Candidates :
                   fg_mask_inboxes[c] <=> Claimants(matching_matrix, c) # {}
            /\ Len(matched_gt_inds) = Len(held)
            /\ \A n \in 1..Len(held) :
                   Claimants(matching_matrix, held[n]) = { matched_gt_inds[n] }

\* a candidate that two ground truths had selected ends with one of them
C4_Witness ==
    /\ matcher # "none"
    /\ \E c \in Candidates :
          /\ Cardinality(Claimants(selected, c)) >= 2
          /\ Cardinality(Claimants(matching_matrix, c)) = 1

\* the sum of the t largest entries of a row of IoU values in halves, by
\* counting: the entries equal to 1 first, then those equal to 1/2
TopSumByCount(row, t) ==
    LET ones  == Cardinality({ c \in 1..Len(row) : row[c] = 2 })
        halfs == Cardinality({ c \in 1..Len(row) : row[c] = 1 })
    IN  2 * Min(ones, t) + Min(halfs, Max(0, t - ones))

\* C5: each ground truth's dynamic k is max(1, floor(sum of its top-min(10, n)
\* IoU values)) in ComputeLossOTA.build_targets and the same with 20 in both
\* builders of ComputeLossAuxOTA; it is at least 1 for every ground truth.
C5_DynamicK ==
    matcher # "none" =>
        LET n   == Len(pair_wise_iou[1])
            cap == IF matcher = "ComputeLossOTA.build_targets" THEN 10 ELSE 20
        IN  /\ Len(dynamic_ks) = Len(pair_wise_iou)
            /\ \A g \in GTs :
                  LET whole == TopSumByCount(pair_wise_iou[g], Min(cap, n)) \div 2
                  IN  /\ dynamic_ks[g] = (IF whole >= 1 THEN whole ELSE 1)
                      /\ dynamic_ks[g] >= 1

\* ComputeLossOTA.build_targets on 11 candidates that all have IoU 1: the cap of
\* 10 decides
C5_Witness ==
    /\ matcher = "ComputeLossOTA.build_targets"
    /\ Len(pair_wise_iou[1]) = 11
    /\ \A c \in Candidates : pair_wise_iou[1][c] = 2
    /\ dynamic_ks = <<10>>

\* C6: a candidate selected by more than one ground truth ends with exactly one
\* claim, held by a ground truth whose total cost for it is the lowest; a
\* candidate selected by exactly one ground truth keeps that claim.
C6_ConflictResolution ==
    matcher # "none" =>
        LET cost == Cost(pair_wise_iou, pair_wise_cls_loss)
        IN  \A c \in Candidates :
               /\ Cardinality(Claimants(selected, c)) > 1 =>
                     /\ Cardinality(Claimants(matching_matrix, c)) = 1
                     /\ \A g \in Claimants(matching_matrix, c) :
                            \A g2 \in GTs : cost[g][c] <= cost[g2][c]
               /\ Cardinality(Claimants(selected, c)) = 1 =>
                     Claimants(matching_matrix, c) = Claimants(selected, c)

\* two ground truths of different cost had selected the same candidate, and
\* another candidate had a single claim
C6_Witness ==
    /\ matcher # "none"
    /\ LET cost == Cost(pair_wise_iou, pair_wise_cls_loss)
       IN  \E c, c2 \in Candidates :
              /\ \E g, g2 \in Claimants(selected, c) : cost[g][c] < cost[g2][c]
              /\ Cardinality(Claimants(selected, c2)) = 1

\* the candidates ground truth g holds in matrix m
HeldBy(m, g) == { c \in 1..Len(m[g]) : m[g][c] = 1 }

\* C24 as stated: the ground truth that holds a candidate after conflict
\* resolution had selected it, so no ground truth ends with a candidate it did
\* not select nor with more than dynamic_k candidates.
C24_HolderHadSelected ==
    matcher # "none" =>
        \A g \in GTs :
            /\ HeldBy(matching_matrix, g) \subseteq HeldBy(selected, g)
            /\ Cardinality(HeldBy(matching_matrix, g)) <= dynamic_ks[g]

\* C24: the ground truth that holds a contested candidate after conflict
\* resolution is one of lowest cost for it among all ground truths of the
\* image, whether or not it had selected the candidate; a ground truth ends
\* only with candidates it selected or contested candidates for which its cost
\* is the lowest, and with at most dynamic_k of the candidates it selected.
C24_HolderHasLowestCost ==
    matcher # "none" =>
        \A g \in GTs :
            /\ \A c \in HeldBy(matching_matrix, g) :
                  \/ c \in HeldBy(selected, g) /\ Claimants(selected, c) = {g}
                  \/ /\ Cardinality(Claimants(selected, c)) > 1
                     /\ \A g2 \in GTs :
                           Cost(pair_wise_iou, pair_wise_cls_loss)[g][c]
                              <= Cost(pair_wise_iou, pair_wise_cls_loss)[g2][c]
            /\ Cardinality(HeldBy(selected, g)) = dynamic_ks[g]
            /\ Cardinality(HeldBy(matching_matrix, g) \cap HeldBy(selected, g))
                  <= dynamic_ks[g]

\* a ground truth ended with a contested candidate it had not selected, and so
\* with more candidates than its dynamic k
C24_Witness ==
    /\ matcher # "none"
    /\ \E g \in GTs : \E c \in HeldBy(matching_matrix, g) :
          /\ c \notin HeldBy(selected, g)
          /\ Cardinality(Claimants(selected, c)) > 1
          /\ Cardinality(HeldBy(matching_matrix, g)) > dynamic_ks[g]

\* C27: in every dynamic builder, for an image that reaches the matching step
\* with IoU values in [0, 1], each ground truth's dynamic k is at least 1 and at
\* most the number of candidates of the image, the selection takes exactly
\* dynamic k of them, and at least one candidate of the image ends as a match.
C27_DynamicKFits ==
    matcher # "none" =>
        /\ \A g \in GTs :
              /\ 1 <= dynamic_ks[g]
              /\ dynamic_ks[g] <= Cardinality(Candidates)
              /\ Cardinality(HeldBy(selected, g)) = dynamic_ks[g]
        /\ \E c \in Candidates : fg_mask_inboxes[c]
        /\ Len(matched_gt_inds) >= 1

\* build_targets2 on 11 candidates that all have IoU 1: the dynamic k is the
\* number of candidates, and all of them are matched
C27_Witness ==
    /\ matcher = "ComputeLossAuxOTA.build_targets2"
    /\ Cardinality(Candidates) = OTA_TOPK + 1
    /\ dynamic_ks = << OTA_TOPK + 1 >>
    /\ \A c \in Candidates : fg_mask_inboxes[c]

---------------------------------------------------------------------------
(* Exact arithmetic for the float values of the loss.  A natural number of *)
(* any size is the sequence of its base-10000 digits, lowest first, with   *)
(* no leading zero digit (0 is the empty sequence); a non-negative         *)
(* rational is a record [n, d] of two such numbers, reduced only by the    *)
(* powers of 10000 they share.                                             *)

RECURSIVE BNat(_)
BNat(k) == IF k = 0 THEN <<>> ELSE <<k % 10000>> \o BNat(k \div 10000)

\* x without its leading zero digits
BStrip(x) ==
    IF \A k \in 1..Len(x) : x[k] = 0 THEN <<>>
    ELSE SubSeq(x, 1, CHOOSE k \in 1..Len(x) :
                         x[k] # 0 /\ \A j \in (k + 1)..Len(x) : x[j] = 0)

\* x as w digits
BPad(x, w) == AsSeq([k \in 1..w |-> IF k <= Len(x) THEN x[k] ELSE 0])

\* digits lo..hi of x + y + c followed by the carry out of digit hi, for x and
\* y of equal length; the range is halved so that long numbers nest shallowly
RECURSIVE BAddRange(_, _, _, _, _)
RECURSIVE BAddUpper(_, _, _, _, _)
BAddUpper(x, y, low, mid, hi) ==
    SubSeq(low, 1, Len(low) - 1) \o BAddRange(x, y, low[Len(low)], mid + 1, hi)
BAddRange(x, y, c, lo, hi) ==
    IF lo = hi THEN << (x[lo] + y[lo] + c) % 10000, (x[lo] + y[lo] + c) \div 10000 >>
    ELSE BAddUpper(x, y, BAddRange(x, y, c, lo, (lo + hi) \div 2), (lo + hi) \div 2, hi)

BAddPadded(x, y, c, w) == BStrip(BAddRange(BPad(x, w), BPad(y, w), c, 1, w))

BAddCarry(x, y, c) ==
    IF x = <<>> /\ y = <<>> THEN (IF c = 0 THEN <<>> ELSE <<c>>)
    ELSE BAddPadded(x, y, c, Max(Len(x), Len(y)))

BAdd(x, y) == BAddCarry(x, y, 0)

\* digits lo..hi of x * d + c followed by the carry out of digit hi
RECURSIVE BMulDigitRange(_, _, _, _, _)
RECURSIVE BMulDigitUpper(_, _, _, _, _)
BMulDigitUpper(x, d, low, mid, hi) ==
    SubSeq(low, 1, Len(low) - 1) \o BMulDigitRange(x, d, low[Len(low)], mid + 1, hi)
BMulDigitRange(x, d, c, lo, hi) ==
    IF lo = hi THEN << (x[lo] * d + c) % 10000, (x[lo] * d + c) \div 10000 >>
    ELSE BMulDigitUpper(x, d, BMulDigitRange(x, d, c, lo, (lo + hi) \div 2),
                        (lo + hi) \div 2, hi)

BMulDigit(x, d, c) ==
    IF x = <<>> THEN (IF c = 0 THEN <<>> ELSE <<c>>)
    ELSE BStrip(BMulDigitRange(x, d, c, 1, Len(x)))

\* x * 10000^k
BShift(x, k) == IF x = <<>> THEN <<>> ELSE AsSeq([j \in 1..k |-> 0]) \o x

\* x times the digits lo..hi of y
RECURSIVE BMulRange(_, _, _, _)
BMulRange(x, y, lo, hi) ==
    IF lo = hi THEN (IF y[lo] = 0 THEN <<>> ELSE BMulDigit(x, y[lo], 0))
    ELSE BAdd(BMulRange(x, y, lo, (lo + hi) \div 2),
              BShift(BMulRange(x, y, (lo + hi) \div 2 + 1, hi), (lo + hi) \div 2 + 1 - lo))

BMul(x, y) ==
    IF x = <<>> \/ y = <<>> THEN <<>>
    ELSE BMulRange(x, y, 1, Len(y))

BLess(x, y) ==
    IF Len(x) # Len(y) THEN Len(x) < Len(y)
    ELSE \E n \in 1..Len(x) :
            /\ x[n] < y[n]
            /\ \A m \in (n + 1)..Len(x) : x[m] = y[m]

Rat(a, b) == [n |-> BNat(a), d |-> BNat(b)]

\* the number of low zero digits of x
BLowZeros(x) ==
    CHOOSE k \in 0..Len(x) : /\ \A j \in 1..k : x[j] = 0
                             /\ k = Len(x) \/ x[k + 1] # 0
\* numerator and denominator divided by 10000^k
RDrop(x, k) == [n |-> SubSeq(x.n, k + 1, Len(x.n)), d |-> SubSeq(x.d, k + 1, Len(x.d))]
\* x with the powers of 10000 common to numerator and denominator cancelled
RNorm(x) == IF x.n = <<>> THEN x ELSE RDrop(x, Min(BLowZeros(x.n), BLowZeros(x.d)))

RAdd(x, y) ==
    IF x.d = y.d THEN [n |-> BAdd(x.n, y.n), d |-> x.d]
    ELSE RNorm([n |-> BAdd(BMul(x.n, y.d), BMul(y.n, x.d)), d |-> BMul(x.d, y.d)])
RMul(x, y) == RNorm([n |-> BMul(x.n, y.n), d |-> BMul(x.d, y.d)])
RDiv(x, y) == RNorm([n |-> BMul(x.n, y.d), d |-> BMul(x.d, y.n)])
REq(x, y) == BMul(x.n, y.d) = BMul(y.n, x.d)
RLess(x, y) == BLess(BMul(x.n, y.d), BMul(y.n, x.d))

---------------------------------------------------------------------------
(* The loss object and the inputs of a call.  A prediction tensor of the   *)
(* model is uniform within a layer: every logit of layer i equals one      *)
(* value x[i] drawn per call.  The results of the box-overlap functions of utils.general    *)
(* (bbox_iou, box_iou), which this file imports, are inputs: `quality`     *)
(* gives, per ground-truth center, the overlap in halves that a predicted  *)
(* box reaches against a box of that ground truth.  pos_weight is 1,       *)
(* fl_gamma is 0 and label_smoothing is 0 (cp = 1, cn = 0).                *)

\* p[i].shape[0]
batch_size == 2
\* hyp['box'], hyp['obj'], hyp['cls'], hyp['theta']
hyp == [box |-> 2, obj |-> 3, cls |-> 5, theta |-> 7]
\* self.gr
gr == 1

\* most calls made on one loss object
MaxCalls == 2

\* the logit of a layer of a prediction tensor
LogitVals == {-1, 1}
\* p: one logit per layer, the same on every layer or layer 0 low and the
\* other layers high
Logits == { AsSeq([i \in Layers |-> v]) : v \in LogitVals }
              \cup { AsSeq([i \in Layers |-> IF i = 1 THEN -1 ELSE 1]) }
\* log(1 + exp(x)) in thousandths
SoftPlus(x) == CASE x = -1 -> 313
                 [] x = 0 -> 693
                 [] x = 1 -> 1313

\* overlap values in halves: CIoU can be negative
QualityVals == {-1, 1, 2}

\* ground truths of a loss call: in image 0 a box every layer accepts and two
\* boxes only layer 3 accepts whose centers lie in the same cell of layer 3; in
\* image 1 a box only layer 3 accepts
LossRows == { r \in GTRows : /\ r[CY] = 16
                             /\ \/ r[CX] = 16
                                \/ r[CX] = 27 /\ r[GW] = 128 }
              \cup { [r EXCEPT ![IMG] = 1] : r \in { r2 \in GTRows : /\ r2[CY] = 16
                                                                    /\ r2[CX] = 16
                                                                    /\ r2[GW] = 128 } }
LossCx == { r[CX] : r \in LossRows }
LossTargetInputs == SeqsUpTo(LossRows, MaxTargets)

\* BalanceTable cut to the layers of the head
BalanceTableByLayers(n) ==
    IF n = 3 THEN << Rat(4, 1), Rat(1, 1), Rat(2, 5) >>
    ELSE SubSeq(<< Rat(4, 1), Rat(1, 1), Rat(1, 4), Rat(3, 50), Rat(1, 50) >>,
                1, IF n < 5 THEN n ELSE 5)

\* {3: [4.0, 1.0, 0.4]}.get(det.nl, [4.0, 1.0, 0.25, 0.06, 0.02])
BalanceTable(n) ==
    IF n = 3 THEN << Rat(4, 1), Rat(1, 1), Rat(2, 5) >>
    ELSE << Rat(4, 1), Rat(1, 1), Rat(1, 4), Rat(3, 50), Rat(1, 50) >>

\* list(st).index(16), 0-based (ValueError when 16 is not in the list)
ListIndex16(st) == (CHOOSE i \in 1..Len(st) :
                       st[i] = 16 /\ \A i2 \in 1..(i - 1) : st[i2] # 16) - 1

StrideIndex16 == ListIndex16(stride)

\* pi[..., 0].numel()
Positions(i) == batch_size * na * grid_h[i] * grid_w[i]

---------------------------------------------------------------------------
(* ComputeLossOTA.build_targets: find_3_positive, then, for each image of  *)
(* the batch, the matcher on the ground truths and the candidates of that  *)
(* image; the matches of the images are concatenated per layer.            *)

\* all_b, all_a, all_gj, all_gi, all_tbox, from_which_layer after torch.cat
ConcatLayers(ind) ==
    Flatten(AsSeq([i \in Layers |->
               AsSeq([n \in 1..Len(ind[i]) |-> [layer |-> i, e |-> ind[i][n]]])]))

ImageCandidates(tg) == ConcatLayers(find_3_positive(tg))

\* pair_wise_iou[g][c] = box_iou(txyxy, pxyxys)[g][c], in halves: the quality of
\* ground truth g where the candidate lies at a center like its own, else 0
PairIou(tg, q, g, e) ==
    IF tg[g][CX] = tg[e.k][CX] THEN Max(q[tg[g][CX]], 0) ELSE 0

\* b_idx = targets[:, 0] == batch_idx: the rows of image b, by their index
ImageRows(tg, b) ==
    SelectSeq(AsSeq([k \in 1..Len(tg) |-> k]), LAMBDA k : tg[k][IMG] = b)

\* CandidatesOfImage without the test of the image
CandidatesOfAnyImage(all, b) == all

\* idx = (b == batch_idx) on every layer, then torch.cat
CandidatesOfImage(all, b) == SelectSeq(all, LAMBDA c : c.e.b = b)

\* lines 596-614: the held candidates with their matched ground truths
\* (this_target[matched_gt_inds], this_target being the rows `rows` of tg),
\* split by from_which_layer
MatchRecords(tg, rows, all, cols, gts) ==
    AsSeq([n \in 1..Len(cols) |->
       [layer |-> all[cols[n]].layer,
        b |-> all[cols[n]].e.b, a |-> all[cols[n]].e.a,
        gj |-> all[cols[n]].e.gj, gi |-> all[cols[n]].e.gi,
        tbox |-> all[cols[n]].e.tbox, anch |-> all[cols[n]].e.anch,
        k |-> all[cols[n]].e.k,
        gt |-> rows[gts[n]],
        tcls |-> tg[rows[gts[n]]][CLS],
        ttheta |-> SubSeq(tg[rows[gts[n]]], 8, Len(tg[rows[gts[n]]]))]])

SplitByLayer(matches) ==
    AsSeq([i \in Layers |-> SelectSeq(matches, LAMBDA r : r.layer = i)])

MatchesOf(tg, rows, all, m) ==
    SplitByLayer(MatchRecords(tg, rows, all, MaskIndices(FgMask(m), Len(all)),
                              MatchedGtInds(m)))

\* lines 579-594 on the cost matrix and the dynamic ks of the image
SelectMatches(tg, rows, all, cost, ks) ==
    { MatchesOf(tg, rows, all, ResolveConflicts(sel, cost)) :
        sel \in TopKSelections(cost, ks, Len(rows)) }

\* lines 548-577: the classification cost of the model rises with the
\* candidate's index, so no two candidates cost a ground truth the same
MatchByIou(tg, rows, all, iou) ==
    SelectMatches(tg, rows, all,
                  Cost(iou, AsSeq([g \in 1..Len(rows) |-> AsSeq([c \in 1..Len(all) |-> c])])),
                  AsSeq([g \in 1..Len(rows) |-> DynamicK(iou[g], OTA_TOPK)]))

\* pair_wise_iou = box_iou(txyxy, pxyxys) of the image
PairWiseIou(tg, q, rows, all) ==
    AsSeq([g \in 1..Len(rows) |->
       AsSeq([c \in 1..Len(all) |-> PairIou(tg, q, rows[g], all[c].e)])])

\* one pass of `for batch_idx in range(p[0].shape[0])`, on the rows and the
\* candidates of the image: what it appends to the per-layer lists
MatchImage(tg, q, rows, all) ==
    IF Len(rows) = 0 \/ Len(all) = 0 THEN { AsSeq([i \in Layers |-> <<>>]) }
    ELSE MatchByIou(tg, rows, all, PairWiseIou(tg, q, rows, all))

\* the passes of images 0..b-1 and torch.cat(matching_...[i], dim=0)
RECURSIVE MatchBatch(_, _, _, _)
MatchBatch(tg, q, all, b) ==
    IF b = 0 THEN { AsSeq([i \in Layers |-> <<>>]) }
    ELSE { AsSeq([i \in Layers |-> prev[i] \o cur[i]]) :
             prev \in MatchBatch(tg, q, all, b - 1),
             cur \in MatchImage(tg, q, ImageRows(tg, b - 1), CandidatesOfImage(all, b - 1)) }

\* the results build_targets can return: per layer, the matches in order, each
\* with the cell and tbox of its candidate and the row of its matched ground truth
ComputeLossOTA_build_targets(tg, q) == MatchBatch(tg, q, ImageCandidates(tg), batch_size)

\* what ComputeLoss.__call__ reads of build_targets' output, per layer
IndexedTargets(ind) ==
    AsSeq([i \in Layers |->
       AsSeq([n \in 1..Len(ind[i]) |->
          [layer |-> i, b |-> ind[i][n].b, a |-> ind[i][n].a,
           gj |-> ind[i][n].gj, gi |-> ind[i][n].gi,
           tbox |-> ind[i][n].tbox, k |-> ind[i][n].k,
           gt |-> ind[i][n].k,
           tcls |-> ind[i][n].tcls,
           ttheta |-> ind[i][n].tgaussian_theta]])])

ComputeLoss_matches(tg) == IndexedTargets(build_targets(tg))

---------------------------------------------------------------------------
(* The aggregator: the body of __call__ after build_targets, the same text *)
(* in ComputeLoss (lines 227-282) and ComputeLossOTA (lines 407-466).      *)

\* the index (b, a, gj, gi) of a match
Pos(r) == <<r.b, r.a, r.gj, r.gi>>

\* iou = bbox_iou(pbox.T, tbox, CIoU=True): per match, in halves, the quality at
\* the ground truth its tbox was encoded from
Ious(tg, q, M) == AsSeq([n \in 1..Len(M) |-> q[tg[M[n].k][CX]]])

\* (1.0 - iou).mean()
BoxLoss(ious) == Rat(SumSeq(AsSeq([n \in 1..Len(ious) |-> 2 - ious[n]])), 2 * Len(ious))

\* TobjValue without clamp(0)
TobjValueUnclamped(iou) == (1 - gr) * 2 + gr * iou

\* (1.0 - self.gr) + self.gr * iou.detach().clamp(0), in halves
TobjValue(iou) == (1 - gr) * 2 + gr * Max(iou, 0)

\* every function f on P with f[e] in opt[e]
RECURSIVE Choices(_, _)
Choices(P, opt) ==
    IF P = {} THEN { <<>> }
    ELSE LET e == CHOOSE e \in P : TRUE
         IN  { (e :> v) @@ f : v \in opt[e], f \in Choices(P \ {e}, opt) }

\* tobj[b, a, gj, gi] = ...: the values tobj can hold at the indexed positions
\* (zero elsewhere).  Indexed assignment is index_put_ without accumulate: where
\* an index occurs more than once, which of its values stays is undefined.
WrittenAt(M, ious, P) ==
    [e \in P |-> { TobjValue(ious[n]) : n \in { m \in 1..Len(M) : Pos(M[m]) = e } }]

TobjWrites(M, ious) ==
    Choices({ Pos(M[n]) : n \in 1..Len(M) },
            WrittenAt(M, ious, { Pos(M[n]) : n \in 1..Len(M) }))

RECURSIVE SumOver(_, _)
SumOver(f, S) ==
    IF S = {} THEN 0
    ELSE LET e == CHOOSE e \in S : TRUE
         IN  f[e] + SumOver(f, S \ {e})

\* nn.BCEWithLogitsLoss (mean) of `count` logits, all x, against targets that
\* sum to total/den: each term is t * log(1+exp(-x)) + (1-t) * log(1+exp(x))
BCEWithLogitsLoss(x, total, den, count) ==
    Rat(total * SoftPlus(-x) + (count * den - total) * SoftPlus(x), 1000 * den * count)

\* obji = self.BCEobj(pi[..., 4], tobj)
BCEobj(x, tobj, i) ==
    BCEWithLogitsLoss(x, SumOver(tobj, DOMAIN tobj), 2, Positions(i))

\* t = full_like(..., cn); t[range(n), tcls] = cp; self.BCEcls(ps[:, 5:...], t)
BCEcls(x, M) ==
    BCEWithLogitsLoss(x, Len(SelectSeq(M, LAMBDA r : r.tcls \in 0..(nc - 1))), 1,
                      Len(M) * nc)

\* self.BCEtheta(ps[:, -180:], t_theta)
BCEtheta(x, M) ==
    BCEWithLogitsLoss(x, SumSeq(AsSeq([n \in 1..Len(M) |-> SumSeq(M[n].ttheta)])), 1,
                      SumSeq(AsSeq([n \in 1..Len(M) |-> Len(M[n].ttheta)])))

\* EmaUpdate moving toward obji instead of 1 / obji
EmaUpdateDirect(b, obji) == RAdd(RMul(b, Rat(9999, 10000)), RMul(Rat(1, 10000), obji))

\* self.balance[i] * 0.9999 + 0.0001 / obji.detach().item()
EmaUpdate(b, obji) == RAdd(RMul(b, Rat(9999, 10000)), RDiv(Rat(1, 10000), obji))

\* BalanceStep without the test of self.autobalance
BalanceStepUnguarded(b, obji, auto) == EmaUpdate(b, obji)

\* if self.autobalance: self.balance[i] = ...
BalanceStep(b, obji, auto) == IF auto THEN EmaUpdate(b, obji) ELSE b

\* ObjTerm without the layer's balance
ObjTermUnbalanced(obji, b) == obji

\* obji * self.balance[i]
ObjTerm(obji, b) == RMul(obji, b)

\* HasTargets with the matched branch taken on every layer
HasTargetsAlways(M) == TRUE

\* n = b.shape[0]; if n:
HasTargets(M) == Len(M) > 0

\* LayerUpdate weighting obji with the balance the layer has after its update
LayerUpdateEmaFirst(acc, i, M, ious, obji, x, auto) ==
    [lbox    |-> IF HasTargets(M) THEN RAdd(acc.lbox, BoxLoss(ious)) ELSE acc.lbox,
     lcls    |-> IF HasTargets(M) /\ nc > 1 THEN RAdd(acc.lcls, BCEcls(x, M)) ELSE acc.lcls,
     ltheta  |-> IF HasTargets(M) THEN RAdd(acc.ltheta, BCEtheta(x, M)) ELSE acc.ltheta,
     lobj    |-> RAdd(acc.lobj, ObjTerm(obji, BalanceStep(acc.balance[i], obji, auto))),
     balance |-> [acc.balance EXCEPT ![i] = BalanceStep(@, obji, auto)],
     obji    |-> Append(acc.obji, obji)]

\* one iteration of `for i, pi in enumerate(p)`
LayerUpdate(acc, i, M, ious, obji, x, auto) ==
    [lbox    |-> IF HasTargets(M) THEN RAdd(acc.lbox, BoxLoss(ious)) ELSE acc.lbox,
     lcls    |-> IF HasTargets(M) /\ nc > 1 THEN RAdd(acc.lcls, BCEcls(x, M)) ELSE acc.lcls,
     ltheta  |-> IF HasTargets(M) THEN RAdd(acc.ltheta, BCEtheta(x, M)) ELSE acc.ltheta,
     lobj    |-> RAdd(acc.lobj, ObjTerm(obji, acc.balance[i])),
     balance |-> [acc.balance EXCEPT ![i] = BalanceStep(@, obji, auto)],
     obji    |-> Append(acc.obji, obji)]

LayerStep(acc, i, M, ious, tobj, x, auto) ==
    LayerUpdate(acc, i, M, ious, BCEobj(x, tobj, i), x, auto)

RECURSIVE LayerLoop(_, _, _, _, _, _, _)
LayerLoop(acc, i, Ms, iouss, tobjs, x, auto) ==
    IF i > nl THEN acc
    ELSE LayerLoop(LayerStep(acc, i, Ms[i], iouss[i], tobjs[i], x[i], auto),
                   i + 1, Ms, iouss, tobjs, x, auto)

\* Renormalise dividing by the first layer's balance
RenormaliseByFirst(bal, s) == AsSeq([i \in 1..Len(bal) |-> RDiv(bal[i], bal[1])])

\* self.balance = [x / self.balance[self.ssi] for x in self.balance]
Renormalise(bal, s) == AsSeq([i \in 1..Len(bal) |-> RDiv(bal[i], bal[s + 1])])

\* ReturnValue with the sum of the commented-out line 281 (no ltheta)
ReturnWithoutTheta(lbox, lobj, lcls, ltheta) ==
    [loss       |-> RMul(RAdd(RAdd(lbox, lobj), lcls), Rat(batch_size, 1)),
     loss_items |-> <<lbox, lobj, lcls, ltheta>>]

\* return (lbox + lobj + lcls + ltheta) * bs, torch.cat((lbox, lobj, lcls, ltheta))
ReturnValue(lbox, lobj, lcls, ltheta) ==
    [loss       |-> RMul(RAdd(RAdd(RAdd(lbox, lobj), lcls), ltheta), Rat(batch_size, 1)),
     loss_items |-> <<lbox, lobj, lcls, ltheta>>]

\* lines 273-282 on the sums of the layer loop: the new self.balance and the
\* record of the call (its return value and what it computed on the way)
CallRecord(Ms, tobjs, x, bal, acc, ret) ==
    [p |-> x, matched |-> Ms, tobj |-> tobjs, obji |-> acc.obji, before |-> bal,
     sums |-> <<acc.lbox, acc.lobj, acc.lcls, acc.ltheta>>,
     loss |-> ret.loss, loss_items |-> ret.loss_items]

AfterLoop(Ms, tobjs, x, bal, auto, s, acc) ==
    [balance |-> IF auto THEN Renormalise(acc.balance, s) ELSE acc.balance,
     record  |-> CallRecord(Ms, tobjs, x, bal, acc,
                            ReturnValue(RMul(acc.lbox, Rat(hyp.box, 1)),
                                        RMul(acc.lobj, Rat(hyp.obj, 1)),
                                        RMul(acc.lcls, Rat(hyp.cls, 1)),
                                        RMul(acc.ltheta, Rat(hyp.theta, 1))))]

\* the whole of __call__ after build_targets
LossCall(Ms, iouss, tobjs, x, bal, auto, s) ==
    AfterLoop(Ms, tobjs, x, bal, auto, s,
              LayerLoop([lbox |-> Rat(0, 1), lcls |-> Rat(0, 1), ltheta |-> Rat(0, 1),
                         lobj |-> Rat(0, 1), balance |-> bal, obji |-> <<>>],
                        1, Ms, iouss, tobjs, x, auto))

---------------------------------------------------------------------------
(* Specification of the loss object: constructed as ComputeLoss or         *)
(* ComputeLossOTA, with or without autobalance, then called up to MaxCalls *)
(* times on the same targets with a prediction tensor drawn per call.      *)

InitLoss ==
    /\ targets \in LossTargetInputs
    /\ builder = "none"
    /\ indices = NoIndices
    /\ MatchIdle
    /\ loss_class \in {"ComputeLoss", "ComputeLossOTA"}
    /\ head = DetFields
    /\ BinIdle
    /\ autobalance \in BOOLEAN
    /\ ssi = IF autobalance THEN StrideIndex16 ELSE 0
    /\ balance = BalanceTable(nl)
    /\ quality \in [LossCx -> QualityVals]
    /\ history = <<>>

AggregateWith(Ms, iouss) ==
    \E x \in Logits :
    \E tobjs \in Choices(Layers, AsSeq([i \in Layers |-> TobjWrites(Ms[i], iouss[i])])) :
    \E out \in { LossCall(Ms, iouss, tobjs, x, balance, autobalance, ssi) } :
        /\ balance' = out.balance
        /\ history' = Append(history, out.record)
        /\ UNCHANGED <<staticVars, matchVars, loss_class, head, autobalance, ssi, quality,
                       binVars>>

Aggregate(Ms) == AggregateWith(Ms, AsSeq([i \in Layers |-> Ious(targets, quality, Ms[i])]))

\* ComputeLoss.__call__
ComputeLoss_call ==
    /\ loss_class = "ComputeLoss"
    /\ Len(history) < MaxCalls
    /\ Aggregate(ComputeLoss_matches(targets))

\* ComputeLossOTA.__call__
ComputeLossOTA_call ==
    /\ loss_class = "ComputeLossOTA"
    /\ Len(history) < MaxCalls
    /\ \E Ms \in ComputeLossOTA_build_targets(targets, quality) : Aggregate(Ms)

NextLoss ==
    \/ ComputeLoss_call
    \/ ComputeLossOTA_call

SpecLoss == InitLoss /\ [][NextLoss]_vars

---------------------------------------------------------------------------
(* ComputeLossAuxOTA: p holds the nl lead tensors and then the nl          *)
(* auxiliary tensors, each of the shape of its lead tensor.                *)
(* build_targets (aux_find_3_positive) and build_targets2                  *)
(* (find_5_positive) are the text of ComputeLossOTA.build_targets with     *)
(* min(20, n) in the top-k.  The overlap of an auxiliary match is          *)
(* bbox_iou(pbox_aux.T, targets_aux[i]) (line 800), the predicted box      *)
(* against the matched target row itself.                                  *)

\* p: one logit per tensor, lead layers then auxiliary layers
AuxLogits == { AsSeq([i \in 1..(2 * nl) |-> v]) : v \in LogitVals }
                 \cup { AsSeq([i \in 1..(2 * nl) |-> IF i <= nl THEN -1 ELSE 1]) }

\* ground truths of a ComputeLossAuxOTA call: two boxes only layer 3 accepts
AuxRows == { r \in LossRows : r[GW] = 128 /\ r[IMG] = 0 }
AuxTargetInputs == SeqsUpTo(AuxRows, MaxTargets)

AuxMatchByIou(tg, rows, all, iou) ==
    SelectMatches(tg, rows, all,
                  Cost(iou, AsSeq([g \in 1..Len(rows) |-> AsSeq([c \in 1..Len(all) |-> c])])),
                  AsSeq([g \in 1..Len(rows) |-> DynamicK(iou[g], AUX_TOPK)]))

AuxMatchImage(tg, q, rows, all) ==
    IF Len(rows) = 0 \/ Len(all) = 0 THEN { AsSeq([i \in Layers |-> <<>>]) }
    ELSE AuxMatchByIou(tg, rows, all, PairWiseIou(tg, q, rows, all))

RECURSIVE AuxMatchBatch(_, _, _, _)
AuxMatchBatch(tg, q, all, b) ==
    IF b = 0 THEN { AsSeq([i \in Layers |-> <<>>]) }
    ELSE { AsSeq([i \in Layers |-> prev[i] \o cur[i]]) :
             prev \in AuxMatchBatch(tg, q, all, b - 1),
             cur \in AuxMatchImage(tg, q, ImageRows(tg, b - 1),
                                    CandidatesOfImage(all, b - 1)) }

ComputeLossAuxOTA_build_targets(tg, q) ==
    AuxMatchBatch(tg, q, ConcatLayers(aux_find_3_positive(tg)), batch_size)

ComputeLossAuxOTA_build_targets2(tg, q) ==
    AuxMatchBatch(tg, q, ConcatLayers(find_5_positive(tg)), batch_size)

\* iou_aux = bbox_iou(pbox_aux.T, targets_aux[i], ...): per match, in halves, the
\* quality at the matched target row
AuxIous(tg, q, M) == AsSeq([n \in 1..Len(M) |-> q[tg[M[n].gt][CX]]])

\* the position (b, a, gj, gi) a match indexes, a counted from the end when
\* negative (find_5_positive reads a from column 6)
AuxPos(r) == <<r.b, PyIndex(r.a, na), r.gj, r.gi>>

AuxWrittenAt(M, ious, P) ==
    [e \in P |-> { TobjValue(ious[n]) : n \in { m \in 1..Len(M) : AuxPos(M[m]) = e } }]

\* tobj_aux[b_aux, a_aux, gj_aux, gi_aux] = ...
AuxTobjWrites(M, ious) ==
    Choices({ AuxPos(M[n]) : n \in 1..Len(M) },
            AuxWrittenAt(M, ious, { AuxPos(M[n]) : n \in 1..Len(M) }))

\* AuxTerm without the weight
AuxTermUnscaled(v) == v

\* 0.25 * (a term of the auxiliary head)
AuxTerm(v) == RMul(Rat(1, 4), v)

\* the terms one iteration of the loop computes for a head: box, cls and theta
\* under `if n:`, obji always
HeadTerms(i, M, ious, tobj, x) ==
    [n     |-> Len(M),
     box   |-> IF Len(M) > 0 THEN BoxLoss(ious) ELSE Rat(0, 1),
     cls   |-> IF Len(M) > 0 /\ nc > 1 THEN BCEcls(x, M) ELSE Rat(0, 1),
     theta |-> IF Len(M) > 0 THEN BCEtheta(x, M) ELSE Rat(0, 1),
     obji  |-> BCEobj(x, tobj, i)]

\* one iteration of `for i in range(self.nl)` on the terms of the two heads
AuxLayerUpdate(acc, i, lead, aux, auto) ==
    [lbox    |-> RAdd(RAdd(acc.lbox, lead.box), AuxTerm(aux.box)),
     lcls    |-> RAdd(RAdd(acc.lcls, lead.cls), AuxTerm(aux.cls)),
     ltheta  |-> RAdd(RAdd(acc.ltheta, lead.theta), AuxTerm(aux.theta)),
     lobj    |-> RAdd(acc.lobj,
                      RAdd(RMul(lead.obji, acc.balance[i]),
                           RMul(AuxTerm(aux.obji), acc.balance[i]))),
     balance |-> [acc.balance EXCEPT ![i] = BalanceStep(@, lead.obji, auto)],
     lead    |-> Append(acc.lead, lead),
     aux     |-> Append(acc.aux, aux)]

RECURSIVE AuxLayerLoop(_, _, _, _, _, _)
AuxLayerLoop(acc, i, lead, aux, x, auto) ==
    IF i > nl THEN acc
    ELSE AuxLayerLoop(AuxLayerUpdate(acc, i,
                         HeadTerms(i, lead.M[i], lead.ious[i], lead.tobj[i], x[i]),
                         HeadTerms(i, aux.M[i], aux.ious[i], aux.tobj[i], x[i + nl]),
                         auto),
                      i + 1, lead, aux, x, auto)

\* selected_tbox = tboxes[i]
SelectedTbox(M) == AsSeq([n \in 1..Len(M) |-> M[n].tbox])

\* selected_tbox_aux = targets_aux[i]: the matched rows of the target tensor
AuxSelectedTbox(tg, M) == AsSeq([n \in 1..Len(M) |-> tg[M[n].gt]])

AuxCallRecord(lead, aux, x, bal, acc, ret) ==
    [p |-> x, matched |-> lead.M, matched_aux |-> aux.M,
     selected_tbox |-> AsSeq([i \in Layers |-> SelectedTbox(lead.M[i])]),
     selected_tbox_aux |-> AsSeq([i \in Layers |-> AuxSelectedTbox(targets, aux.M[i])]),
     tobj |-> lead.tobj, tobj_aux |-> aux.tobj,
     lead |-> acc.lead, aux |-> acc.aux, before |-> bal,
     sums |-> <<acc.lbox, acc.lobj, acc.lcls, acc.ltheta>>,
     loss |-> ret.loss, loss_items |-> ret.loss_items]

AuxAfterLoop(lead, aux, x, bal, auto, s, acc) ==
    [balance |-> IF auto THEN Renormalise(acc.balance, s) ELSE acc.balance,
     record  |-> AuxCallRecord(lead, aux, x, bal, acc,
                               ReturnValue(RMul(acc.lbox, Rat(hyp.box, 1)),
                                           RMul(acc.lobj, Rat(hyp.obj, 1)),
                                           RMul(acc.lcls, Rat(hyp.cls, 1)),
                                           RMul(acc.ltheta, Rat(hyp.theta, 1))))]

\* the whole of ComputeLossAuxOTA.__call__ after the two build_targets
AuxLossCall(lead, aux, x, bal, auto, s) ==
    AuxAfterLoop(lead, aux, x, bal, auto, s,
                 AuxLayerLoop([lbox |-> Rat(0, 1), lcls |-> Rat(0, 1), ltheta |-> Rat(0, 1),
                               lobj |-> Rat(0, 1), balance |-> bal,
                               lead |-> <<>>, aux |-> <<>>],
                              1, lead, aux, x, auto))

InitAux ==
    /\ targets \in AuxTargetInputs
    /\ builder = "none"
    /\ indices = NoIndices
    /\ MatchIdle
    /\ loss_class = "ComputeLossAuxOTA"
    /\ head = DetFields
    /\ BinIdle
    /\ autobalance \in BOOLEAN
    /\ ssi = IF autobalance THEN StrideIndex16 ELSE 0
    /\ balance = BalanceTable(nl)
    /\ quality \in [LossCx -> QualityVals]
    /\ history = <<>>

AuxAggregateWith(Ms, iouss, Maux, iousaux) ==
    \E x \in AuxLogits :
    \E tobjs \in Choices(Layers, AsSeq([i \in Layers |-> TobjWrites(Ms[i], iouss[i])])) :
    \E tobjsaux \in Choices(Layers,
                            AsSeq([i \in Layers |-> AuxTobjWrites(Maux[i], iousaux[i])])) :
    \E out \in { AuxLossCall([M |-> Ms, ious |-> iouss, tobj |-> tobjs],
                             [M |-> Maux, ious |-> iousaux, tobj |-> tobjsaux],
                             x, balance, autobalance, ssi) } :
        /\ balance' = out.balance
        /\ history' = Append(history, out.record)
        /\ UNCHANGED <<staticVars, matchVars, loss_class, head, autobalance, ssi, quality,
                       binVars>>

\* ComputeLossAuxOTA.__call__
ComputeLossAuxOTA_call ==
    /\ loss_class = "ComputeLossAuxOTA"
    /\ Len(history) < MaxCalls
    /\ \E Maux \in ComputeLossAuxOTA_build_targets2(targets, quality) :
       \E Ms \in ComputeLossAuxOTA_build_targets(targets, quality) :
          AuxAggregateWith(Ms, AsSeq([i \in Layers |-> Ious(targets, quality, Ms[i])]),
                           Maux, AsSeq([i \in Layers |-> AuxIous(targets, quality, Maux[i])]))

NextAux == ComputeLossAuxOTA_call

SpecAux == InitAux /\ [][NextAux]_vars

---------------------------------------------------------------------------
(* Construction for any layer count.  The detection head has det.nl layers *)
(* of strides 8, 16, 32, ...; __init__ fails with ValueError when          *)
(* autobalance is on and no layer has stride 16, so such an object does    *)
(* not exist.  A call is followed through the statements that read and     *)
(* write self.balance (lines 268-274, 452-458), the objectness loss obji   *)
(* of each layer being a positive number drawn per call.                   *)

\* most layers of a detection head
MaxLayers == 6

\* det.stride of a head of n layers: tensor([8., 16., 32., ...])
DetStride(n) == AsSeq([i \in 1..n |-> 8 * 2^(i - 1)])

\* det.anchors of a head of n layers
DetAnchors(n) == AsSeq([i \in 1..n |-> anchors[((i - 1) % nl) + 1]])

\* the fields __init__ copies from a head of n layers
DetFieldsOf(n) ==
    [na |-> na, nc |-> nc, nl |-> n, anchors |-> DetAnchors(n), stride |-> DetStride(n)]

\* BCEobj(pi[..., 4], tobj) of a layer
ObjiVals == { Rat(1, 2), Rat(2, 1) }

\* obji of the layers of one call
ObjiInputs(n) ==
    { AsSeq([i \in 1..n |-> v]) : v \in ObjiVals }
        \cup { AsSeq([i \in 1..n |-> IF i = 1 THEN Rat(2, 1) ELSE Rat(1, 2)]) }

\* the loop over the layers as far as lobj and self.balance go; self.balance[i]
\* raises IndexError when the list has no entry i, and the entries assigned
\* before stay assigned
RECURSIVE BalanceLoop(_, _, _, _, _)
BalanceLoop(acc, i, n, obji, auto) ==
    IF i > n THEN acc
    ELSE IF i > Len(acc.balance) THEN [acc EXCEPT !.status = "IndexError"]
    ELSE BalanceLoop([status  |-> "ok",
                      lobj    |-> RAdd(acc.lobj, ObjTerm(obji[i], acc.balance[i])),
                      balance |-> [acc.balance EXCEPT ![i] = BalanceStep(@, obji[i], auto)]],
                     i + 1, n, obji, auto)

\* lines 273-274 after the loop
BalanceAfterLoop(out, auto, s) ==
    IF out.status = "ok" /\ auto THEN [out EXCEPT !.balance = Renormalise(@, s)] ELSE out

BalanceCall(bal, n, obji, auto, s) ==
    BalanceAfterLoop(BalanceLoop([status |-> "ok", lobj |-> Rat(0, 1), balance |-> bal],
                                 1, n, obji, auto),
                     auto, s)

InitConstruct ==
    /\ targets = <<>>
    /\ builder = "none"
    /\ indices = NoIndices
    /\ MatchIdle
    /\ BinIdle
    /\ loss_class \in {"ComputeLoss", "ComputeLossOTA"}
    /\ \E n \in 1..MaxLayers : head = DetFieldsOf(n)
    /\ autobalance \in BOOLEAN
    /\ autobalance => \E i \in 1..Len(head.stride) : head.stride[i] = 16
    /\ ssi = IF autobalance THEN ListIndex16(head.stride) ELSE 0
    /\ balance = BalanceTable(head.nl)
    /\ quality = <<>>
    /\ history = <<>>

ConstructedCall ==
    /\ Len(history) < MaxCalls
    /\ \E obji \in ObjiInputs(head.nl) :
       \E out \in { BalanceCall(balance, head.nl, obji, autobalance, ssi) } :
           /\ balance' = out.balance
           /\ history' = Append(history, [status |-> out.status, obji |-> obji,
                                          before |-> balance, lobj |-> out.lobj])
           /\ UNCHANGED <<staticVars, matchVars, loss_class, head, autobalance, ssi,
                          quality, binVars>>

\* ComputeLoss.__call__ on a head of any layer count
ComputeLoss_call_nl == loss_class = "ComputeLoss" /\ ConstructedCall

\* ComputeLossOTA.__call__ on a head of any layer count
ComputeLossOTA_call_nl == loss_class = "ComputeLossOTA" /\ ConstructedCall

NextConstruct ==
    \/ ComputeLoss_call_nl
    \/ ComputeLossOTA_call_nl

SpecConstruct == InitConstruct /\ [][NextConstruct]_vars

---------------------------------------------------------------------------
(* SigmoidBin.  Every value of the object and of its calls (min, max,      *)
(* step, the bin centers, targets, results) is an integer number of units  *)
(* of 1/den, den = 2000 * bin_count * (the denominator of max - min), so   *)
(* that half a step and a thousandth of a step are whole units.  The first *)
(* entry of a prediction row is given in halves, the others are bin logits *)
(* in {0, 1}; a prediction tensor repeats one row, a target tensor one     *)
(* value.  smooth_eps is 0 (cp = 1, cn = 0) and BCE_weight is 1.           *)

\* most bins of a SigmoidBin
MaxBins == 3
\* min
BinMinVals == {-1, 0}
\* max - min, as <<numerator, denominator>>
BinScaleVals == { <<3, 1>>, <<1, 20000>> }
\* reg_scale (the default of __init__)
reg_scale == 2
\* pred[..., 0] in halves
RegVals == {0, 1, 6}
\* sigmoid of a value given in halves, in thousandths
Sigmoid(r) == CASE r = 0 -> 500
                [] r = 1 -> 622
                [] r = 6 -> 953

\* torch.range(start, end, step): start, start + step, ... up to end inclusive
TorchRange(start, end, step) ==
    AsSeq([k \in 1..((end - start) \div step + 1) |-> start + (k - 1) * step])

\* self.length = bin_count + 1
BinLength(bin_count) == bin_count + 1

\* the fields __init__ sets, on units of 1/den: scale is 2 * bin_count * sc[1]
\* units, step 2 * sc[1] * 1000 units, and the 0.0001 of line 62 is den / 10000
SigmoidBinFields(bin_count, den, min, sn, fw, lr) ==
    [bin_count |-> bin_count, length |-> BinLength(bin_count), den |-> den,
     min |-> min * den, max |-> min * den + 2000 * bin_count * sn,
     scale |-> 2000 * bin_count * sn, step |-> 2000 * sn,
     bins |-> TorchRange(min * den + 1000 * sn,
                         min * den + 2000 * bin_count * sn - 1000 * sn + den \div 10000,
                         2000 * sn),
     reg_scale |-> reg_scale,
     use_fw_regression |-> fw, use_loss_regression |-> lr]

\* SigmoidBin.__init__
SigmoidBin_init(bin_count, min, sc, fw, lr) ==
    SigmoidBinFields(bin_count, 2000 * bin_count * sc[2], min, sc[1], fw, lr)

\* prediction rows: pred[..., 0] and then up to MaxBins + 1 bin logits
RECURSIVE BitRows(_)
BitRows(n) == IF n = 0 THEN { <<>> }
              ELSE { <<b>> \o r : b \in {0, 1}, r \in BitRows(n - 1) }
BinPredRows == { <<r>> \o bits : r \in RegVals,
                                 bits \in UNION { BitRows(n) : n \in 0..(MaxBins + 1) } }
\* pred.shape[0], target.shape[0]
BinRowCounts == { <<1, 1>>, <<2, 2>>, <<2, 1>> }
\* target values: min, max, and values strictly between them
BinTargets(bin) == { bin.min, bin.min + 1, bin.min + bin.step \div 2,
                     bin.min + bin.step, bin.max - 1, bin.max }

Abs(x) == IF x < 0 THEN -x ELSE x

\* torch.max(pred_bin, dim=-1)[1]: an index (0-based) of a greatest entry
ArgMax(q) == { k - 1 : k \in { k \in 1..Len(q) : \A j \in 1..Len(q) : q[j] <= q[k] } }
\* torch.min(diff_bin_target, dim=-1)[1]: an index (0-based) of a least entry
ArgMin(q) == { k - 1 : k \in { k \in 1..Len(q) : \A j \in 1..Len(q) : q[k] <= q[j] } }

\* the assertion accepting a last dimension greater than self.length
ShapeAssertAtLeast(last, length) == last >= length

\* assert pred.shape[-1] == self.length
ShapeAssert(last, length) == last = length

\* pred[..., 1:(1 + self.bin_count)]
PredBin(bin, row) == SubSeq(row, 2, 1 + bin.bin_count)

\* (pred[..., 0] * self.reg_scale - self.reg_scale/2.0) * self.step
ForwardReg(bin, row) == bin.reg_scale * (row[1] - 1) * (bin.step \div 2)

\* (pred[..., 0].sigmoid() * self.reg_scale - self.reg_scale/2.0) * self.step
TrainingReg(bin, row) == bin.reg_scale * (Sigmoid(row[1]) - 500) * (bin.step \div 1000)

ForwardResult(bin, row, bin_idx) ==
    clamp(IF bin.use_fw_regression THEN ForwardReg(bin, row) + bin.bins[bin_idx + 1]
          ELSE bin.bins[bin_idx + 1],
          bin.min, bin.max)

\* what forward returns or raises
Forward(bin, rows, row) ==
    IF ~ShapeAssert(Len(row), bin.length)
    THEN { [op |-> "forward", rows |-> rows, row |-> row, status |-> "AssertionError"] }
    ELSE { [op |-> "forward", rows |-> rows, row |-> row, status |-> "ok",
            bin_idx |-> k, result |-> ForwardResult(bin, row, k)] :
           k \in ArgMax(PredBin(bin, row)) }

\* DiffBinTarget without torch.abs
DiffBinTargetSigned(bin, v) == AsSeq([k \in 1..Len(bin.bins) |-> v - bin.bins[k]])

\* torch.abs(target[..., None] - self.bins)
DiffBinTarget(bin, v) == AsSeq([k \in 1..Len(bin.bins) |-> Abs(v - bin.bins[k])])

\* self.BCEbins(pred_bin, target_bins), target_bins = cn with cp at bin_idx
BCEbins(logits, bin_idx) ==
    Rat(SumSeq(AsSeq([k \in 1..Len(logits) |->
                  IF k = bin_idx + 1 THEN SoftPlus(-logits[k]) ELSE SoftPlus(logits[k])])),
        1000 * Len(logits))

\* self.MSELoss(result, target)
MSELoss(result, v, den) == RMul(Rat(Abs(result - v), den), Rat(Abs(result - v), den))

TrainingLossValue(bin, row, v, bin_idx, result) ==
    IF bin.use_loss_regression
    THEN RAdd(BCEbins(PredBin(bin, row), bin_idx), MSELoss(result, v, bin.den))
    ELSE BCEbins(PredBin(bin, row), bin_idx)

\* lines 103-121 once bin_idx is chosen
TrainingOutcome(bin, rows, row, v, bin_idx, result) ==
    IF bin_idx >= bin.bin_count
    THEN [op |-> "training_loss", rows |-> rows, row |-> row, target |-> v,
          status |-> "IndexError"]
    ELSE [op |-> "training_loss", rows |-> rows, row |-> row, target |-> v,
          status |-> "ok", bin_idx |-> bin_idx,
          loss |-> TrainingLossValue(bin, row, v, bin_idx, result),
          result |-> clamp(result, bin.min, bin.max)]

\* what training_loss returns or raises
TrainingLoss(bin, rows, row, v) ==
    IF ~ShapeAssert(Len(row), bin.length) \/ rows[1] # rows[2]
    THEN { [op |-> "training_loss", rows |-> rows, row |-> row, target |-> v,
            status |-> "AssertionError"] }
    ELSE { TrainingOutcome(bin, rows, row, v, k, TrainingReg(bin, row) + bin.bins[k + 1]) :
           k \in ArgMin(DiffBinTarget(bin, v)) }

InitBin ==
    /\ targets = <<>>
    /\ builder = "none"
    /\ indices = NoIndices
    /\ MatchIdle
    /\ LossIdle
    /\ sigmoid_bin \in { SigmoidBin_init(n, m, sc, fw, lr) :
                           n \in 1..MaxBins, m \in BinMinVals, sc \in BinScaleVals,
                           fw \in BOOLEAN, lr \in BOOLEAN }
    /\ \E row \in BinPredRows : \E rows \in BinRowCounts :
       \E v \in BinTargets(sigmoid_bin) :
          bin_input = [rows |-> rows, row |-> row, target |-> v]
    /\ bin_call = <<>>

\* SigmoidBin.forward
SigmoidBin_forward ==
    \E out \in Forward(sigmoid_bin, bin_input.rows, bin_input.row) :
        /\ bin_call' = out
        /\ UNCHANGED <<staticVars, matchVars, lossVars, sigmoid_bin, bin_input>>

\* SigmoidBin.training_loss
SigmoidBin_training_loss ==
    \E out \in TrainingLoss(sigmoid_bin, bin_input.rows, bin_input.row, bin_input.target) :
        /\ bin_call' = out
        /\ UNCHANGED <<staticVars, matchVars, lossVars, sigmoid_bin, bin_input>>

NextBin ==
    \/ SigmoidBin_forward
    \/ SigmoidBin_training_loss

SpecBin == InitBin /\ [][NextBin]_vars

---------------------------------------------------------------------------
(* Properties of the loss calls.                                           *)

IsZero(x) == x.n = <<>>

\* sum over layers i..nl of bal[i] * log(1 + exp(x[i])): the objectness loss of
\* a layer whose objectness target is zero everywhere is the mean of
\* log(1 + exp(x[i]))
RECURSIVE BackgroundSum(_, _, _)
BackgroundSum(bal, x, i) ==
    IF i > nl THEN Rat(0, 1)
    ELSE RAdd(RMul(bal[i], Rat(SoftPlus(x[i]), 1000)), BackgroundSum(bal, x, i + 1))

\* C7: with zero ground-truth rows in the batch the builders return no match on
\* any layer and a loss call completes on that: the box, cls and angle entries
\* of its breakdown are exactly zero, and its scalar is
\* batch_size * hyp['obj'] * sum over layers of balance[i] * (objectness loss of
\* layer i against the all-zero objectness target).
C7_ZeroGroundTruths ==
    (loss_class # "none" /\ Len(targets) = 0) =>
        /\ ComputeLoss_matches(targets) = NoIndices
        /\ ComputeLossOTA_build_targets(targets, quality) = { NoIndices }
        /\ \A n \in 1..Len(history) :
              /\ IsZero(history[n].loss_items[1])
              /\ IsZero(history[n].loss_items[3])
              /\ IsZero(history[n].loss_items[4])
              /\ REq(history[n].loss,
                     RMul(Rat(batch_size * hyp.obj, 1),
                          BackgroundSum(history[n].before, history[n].p, 1)))

\* a ComputeLoss call on an empty target tensor returned a positive loss
C7_Witness ==
    /\ loss_class = "ComputeLoss"
    /\ Len(targets) = 0
    /\ Len(history) >= 1
    /\ ~IsZero(history[1].loss)
    /\ \A i \in Layers : history[1].matched[i] = <<>>

\* C8: every call returns (scalar, breakdown) with breakdown = [box, obj, cls,
\* angle], the component sums times hyp['box'], hyp['obj'], hyp['cls'],
\* hyp['theta'], and scalar = batch_size * (sum of the four entries).
C8_ReturnValue ==
    \A n \in 1..Len(history) :
        /\ Len(history[n].loss_items) = 4
        /\ REq(history[n].loss_items[1], RMul(history[n].sums[1], Rat(hyp.box, 1)))
        /\ REq(history[n].loss_items[2], RMul(history[n].sums[2], Rat(hyp.obj, 1)))
        /\ REq(history[n].loss_items[3], RMul(history[n].sums[3], Rat(hyp.cls, 1)))
        /\ REq(history[n].loss_items[4], RMul(history[n].sums[4], Rat(hyp.theta, 1)))
        /\ REq(history[n].loss,
               RMul(Rat(batch_size, 1),
                    RAdd(RAdd(history[n].loss_items[1], history[n].loss_items[2]),
                         RAdd(history[n].loss_items[3], history[n].loss_items[4]))))

\* a call whose four components are all positive
C8_Witness ==
    \E n \in 1..Len(history) :
        \A c \in 1..4 : ~IsZero(history[n].loss_items[c])

\* C9: with autobalance off, two calls in a row on the same predictions and
\* targets return the same scalar and the same breakdown.
C9_Idempotent ==
    ~autobalance =>
        \A n \in 1..(Len(history) - 1) :
            history[n].p = history[n + 1].p =>
                /\ REq(history[n].loss, history[n + 1].loss)
                /\ \A c \in 1..4 :
                      REq(history[n].loss_items[c], history[n + 1].loss_items[c])

\* balance[i] * 0.9999 + 0.0001 / obji on the values recorded for call h
Updated(h, i) ==
    RAdd(RMul(h.before[i], Rat(9999, 10000)), RDiv(Rat(1, 10000), h.obji[i]))

\* self.balance after call n
BalanceAfter(n) == IF n = Len(history) THEN balance ELSE history[n + 1].before

\* C10: with autobalance on, a call leaves in balance[i] the value
\* (balance[i] * 0.9999 + 0.0001 / obji) divided by the same expression for the
\* reference layer ssi, the layer of stride 16; balance[ssi] is exactly 1 after
\* every call.
C10_Autobalance ==
    autobalance =>
        /\ stride[ssi + 1] = 16
        /\ \A n \in 1..Len(history) :
              /\ REq(BalanceAfter(n)[ssi + 1], Rat(1, 1))
              /\ \A i \in Layers :
                    REq(BalanceAfter(n)[i],
                        RDiv(Updated(history[n], i), Updated(history[n], ssi + 1)))

\* two calls with autobalance on, each of which moved the balance of layer 1
C10_Witness ==
    /\ autobalance
    /\ Len(history) >= 2
    /\ ~REq(history[2].before[1], history[1].before[1])
    /\ ~REq(balance[1], history[2].before[1])

\* C11: with autobalance on, two calls in a row in which the objectness loss of
\* layer 0 is lower in the second call than in the first leave layer 0's balance
\* strictly greater after the second call than after the first, and the balance
\* of the reference layer is exactly 1 after each call.
C11_BalanceIncreases ==
    (autobalance /\ Len(history) = 2
        /\ RLess(history[2].obji[1], history[1].obji[1])) =>
            /\ RLess(BalanceAfter(1)[1], BalanceAfter(2)[1])
            /\ REq(BalanceAfter(1)[ssi + 1], Rat(1, 1))
            /\ REq(BalanceAfter(2)[ssi + 1], Rat(1, 1))

\* C11 as amended: the balance of the reference layer is exactly 1 after each
\* call, and layer 0's balance after the second call is strictly greater than
\* after the first exactly when the reference layer's objectness loss of the
\* second call exceeds layer 0's objectness loss of the second call times layer
\* 0's balance after the first call.
C11_BalanceMovesTowardInverse ==
    (autobalance /\ Len(history) = 2) =>
        /\ REq(BalanceAfter(1)[ssi + 1], Rat(1, 1))
        /\ REq(BalanceAfter(2)[ssi + 1], Rat(1, 1))
        /\ RLess(BalanceAfter(1)[1], BalanceAfter(2)[1])
              <=> RLess(RMul(history[2].obji[1], BalanceAfter(1)[1]),
                        history[2].obji[ssi + 1])

\* two calls with a lower objectness loss on layer 0 in the second, after which
\* layer 0's balance is greater than after the first
C11_Witness ==
    /\ autobalance
    /\ Len(history) = 2
    /\ RLess(history[2].obji[1], history[1].obji[1])
    /\ RLess(BalanceAfter(1)[1], BalanceAfter(2)[1])

\* the sum over the layers i..nl of lead[i] + 0.25 * aux[i]
RECURSIVE WeightedSum(_, _, _)
WeightedSum(lead, aux, i) ==
    IF i > Len(lead) THEN Rat(0, 1)
    ELSE RAdd(RAdd(lead[i], RMul(Rat(1, 4), aux[i])), WeightedSum(lead, aux, i + 1))

\* C12: in a ComputeLossAuxOTA call each of the four sums is, over the layers,
\* the lead head's term plus exactly 0.25 times the auxiliary head's term, the
\* objectness terms of both heads times the balance[i] the layer had when the
\* call began.
C12_AuxiliaryWeight ==
    loss_class = "ComputeLossAuxOTA" =>
        \A n \in 1..Len(history) :
            LET h == history[n]
            IN  /\ REq(h.sums[1],
                       WeightedSum(AsSeq([i \in Layers |-> h.lead[i].box]),
                                   AsSeq([i \in Layers |-> h.aux[i].box]), 1))
                /\ REq(h.sums[2],
                       WeightedSum(AsSeq([i \in Layers |-> RMul(h.lead[i].obji, h.before[i])]),
                                   AsSeq([i \in Layers |-> RMul(h.aux[i].obji, h.before[i])]), 1))
                /\ REq(h.sums[3],
                       WeightedSum(AsSeq([i \in Layers |-> h.lead[i].cls]),
                                   AsSeq([i \in Layers |-> h.aux[i].cls]), 1))
                /\ REq(h.sums[4],
                       WeightedSum(AsSeq([i \in Layers |-> h.lead[i].theta]),
                                   AsSeq([i \in Layers |-> h.aux[i].theta]), 1))

\* a call in which, on one layer, both heads have matches and every term of
\* the auxiliary head is positive
C12_Witness ==
    /\ loss_class = "ComputeLossAuxOTA"
    /\ \E n \in 1..Len(history) : \E i \in Layers :
          /\ history[n].lead[i].n > 0
          /\ history[n].aux[i].n > 0
          /\ ~IsZero(history[n].aux[i].box)
          /\ ~IsZero(history[n].aux[i].cls)
          /\ ~IsZero(history[n].aux[i].theta)
          /\ ~IsZero(history[n].aux[i].obji)

\* what the aggregator does in call n on layers without a match: no position
\* of tobj is assigned
NothingSet(n) == \A i \in Layers : history[n].matched[i] = <<>> /\ DOMAIN history[n].tobj[i] = {}

\* the box, cls and angle sums of call n are zero
NoMatchLoss(n) ==
    /\ IsZero(history[n].sums[1])
    /\ IsZero(history[n].sums[3])
    /\ IsZero(history[n].sums[4])

\* C17 as stated: on a target tensor of zero rows the static builder emits one
\* placeholder row for each layer, and the aggregator sets no objectness target
\* and computes no box, cls or angle loss.
C17_PlaceholderRow ==
    (loss_class = "ComputeLoss" /\ Len(targets) = 0) =>
        /\ \A i \in Layers : Len(build_targets(targets)[i]) = 1
        /\ \A n \in 1..Len(history) : NothingSet(n) /\ NoMatchLoss(n)

\* C17: on a target tensor of zero rows the static builder emits, for each
\* layer, an entry of zero rows, and the aggregator sets no objectness target
\* and computes no box, cls or angle loss.
C17_EmptyAssignment ==
    (loss_class = "ComputeLoss" /\ Len(targets) = 0) =>
        /\ Len(build_targets(targets)) = nl
        /\ \A i \in Layers : Len(build_targets(targets)[i]) = 0
        /\ \A n \in 1..Len(history) : NothingSet(n) /\ NoMatchLoss(n)

\* ComputeLoss was called twice on a target tensor of zero rows and the
\* objectness sum of the second call is positive
C17_Witness ==
    /\ loss_class = "ComputeLoss"
    /\ Len(targets) = 0
    /\ Len(history) = 2
    /\ ~IsZero(history[2].sums[2])
    /\ NothingSet(2)

\* a rational with a nonzero denominator (the mean of no value is 0/0)
IsNumber(x) == x.d # <<>>

\* the box, cls and angle losses of the layers i..nl of call n that have matches
RECURSIVE MatchedBox(_, _)
MatchedBox(n, i) ==
    IF i > nl THEN Rat(0, 1)
    ELSE IF history[n].matched[i] = <<>> THEN MatchedBox(n, i + 1)
    ELSE RAdd(BoxLoss(Ious(targets, quality, history[n].matched[i])), MatchedBox(n, i + 1))

RECURSIVE MatchedCls(_, _)
MatchedCls(n, i) ==
    IF i > nl THEN Rat(0, 1)
    ELSE IF history[n].matched[i] = <<>> THEN MatchedCls(n, i + 1)
    ELSE RAdd(BCEcls(history[n].p[i], history[n].matched[i]), MatchedCls(n, i + 1))

RECURSIVE MatchedTheta(_, _)
MatchedTheta(n, i) ==
    IF i > nl THEN Rat(0, 1)
    ELSE IF history[n].matched[i] = <<>> THEN MatchedTheta(n, i + 1)
    ELSE RAdd(BCEtheta(history[n].p[i], history[n].matched[i]), MatchedTheta(n, i + 1))

\* C18: in every call a layer without a match has an objectness target that is
\* zero everywhere, so its objectness loss is the background loss
\* log(1 + exp(x)), and it adds nothing to the box, cls and angle sums: each sum
\* is a number, the sum of the losses of the layers that have matches.
C18_UnmatchedLayer ==
    \A n \in 1..Len(history) :
        /\ \A i \in Layers :
              history[n].matched[i] = <<>> =>
                  /\ DOMAIN history[n].tobj[i] = {}
                  /\ REq(history[n].obji[i], Rat(SoftPlus(history[n].p[i]), 1000))
        /\ \A k \in {1, 3, 4} : IsNumber(history[n].sums[k])
        /\ REq(history[n].sums[1], MatchedBox(n, 1))
        /\ REq(history[n].sums[3], MatchedCls(n, 1))
        /\ REq(history[n].sums[4], MatchedTheta(n, 1))

\* a call in which one layer had no match and another layer had matches and a
\* positive box loss
C18_Witness ==
    /\ Len(history) >= 1
    /\ \E i, j \in Layers :
          /\ history[1].matched[i] = <<>>
          /\ history[1].matched[j] # <<>>
    /\ ~IsZero(history[1].sums[1])
    /\ ~IsZero(history[1].sums[4])

\* C19: a call leaves na, nc, nl, anchors and stride of the loss object as they
\* are, and the class, autobalance and ssi with them; with autobalance off it
\* leaves self.balance as it is, which is then the table of construction after
\* any number of calls; self.balance is the only field a call assigns.
C19_Frame ==
    [][ /\ Len(history') = Len(history) + 1
        /\ head' = head
        /\ head' = DetFields
        /\ loss_class' = loss_class
        /\ autobalance' = autobalance
        /\ ssi' = ssi
        /\ ~autobalance => /\ balance' = balance
                           /\ balance' = BalanceTable(head.nl)
                           /\ history'[Len(history')].before = BalanceTable(head.nl) ]_vars

\* two calls were made with autobalance off, with different predictions and
\* different losses
C19_Witness ==
    /\ loss_class # "none"
    /\ ~autobalance
    /\ Len(history) = 2
    /\ history[1].p # history[2].p
    /\ history[1].loss # history[2].loss
    /\ balance = history[1].before

\* the positions of layer i matched in call n
MatchedSet(n, i) == { Pos(history[n].matched[i][m]) : m \in 1..Len(history[n].matched[i]) }

\* the overlaps, in halves, of the matches of layer i in call n
MatchIous(n, i) == Ious(targets, quality, history[n].matched[i])

\* the sum, in halves, of the objectness target of layer i in call n
TobjTotal(n, i) == SumOver(history[n].tobj[i], DOMAIN history[n].tobj[i])

\* C20: in every call and layer the objectness target is nonzero only inside
\* the matched set; at a matched position it is the overlap of one of the
\* matches at that position, clamped below at 0, hence between 0 and 1; and the
\* objectness loss is the mean over all b * na * h * w positions of the layer.
C20_ObjectnessTarget ==
    \A n \in 1..Len(history) : \A i \in Layers :
        /\ DOMAIN history[n].tobj[i] = MatchedSet(n, i)
        /\ \A e \in MatchedSet(n, i) :
              /\ \E m \in 1..Len(history[n].matched[i]) :
                    /\ Pos(history[n].matched[i][m]) = e
                    /\ history[n].tobj[i][e] = Max(MatchIous(n, i)[m], 0)
              /\ history[n].tobj[i][e] \in 0..2
        /\ Cardinality(MatchedSet(n, i)) <= batch_size * na * grid_h[i] * grid_w[i]
        /\ REq(history[n].obji[i],
               Rat(TobjTotal(n, i) * SoftPlus(-history[n].p[i])
                     + (2 * batch_size * na * grid_h[i] * grid_w[i] - TobjTotal(n, i))
                          * SoftPlus(history[n].p[i]),
                   2000 * batch_size * na * grid_h[i] * grid_w[i]))

\* a call in which one match had a negative overlap, so that its position holds
\* 0, and another layer position holds a positive target
C20_Witness ==
    /\ Len(history) >= 1
    /\ \E i \in Layers : \E m \in 1..Len(history[1].matched[i]) :
          /\ MatchIous(1, i)[m] < 0
          /\ history[1].tobj[i][Pos(history[1].matched[i][m])] = 0
    /\ \E j \in Layers : \E e \in DOMAIN history[1].tobj[j] : history[1].tobj[j][e] > 0

\* the static candidates of layer i that match r of a dynamic builder's output
\* can have come from
SourceCandidates(cands, r) ==
    { c \in 1..Len(cands) : /\ cands[c].b = r.b
                            /\ cands[c].a = r.a
                            /\ cands[c].gj = r.gj
                            /\ cands[c].gi = r.gi
                            /\ cands[c].tbox = r.tbox
                            /\ cands[c].anch = r.anch }

\* C21: every match ComputeLossOTA.build_targets returns for layer i carries the
\* image, anchor, row, column, target box and anchor shape of one candidate
\* find_3_positive emitted for layer i, it is listed under the layer of that
\* candidate, and its ground truth belongs to the candidate's image.
C21_MatchesAreCandidates ==
    loss_class = "ComputeLossOTA" =>
        \A n \in 1..Len(history) :
            /\ Len(history[n].matched) = nl
            /\ \A i \in Layers : \A m \in 1..Len(history[n].matched[i]) :
                  /\ history[n].matched[i][m].layer = i
                  /\ SourceCandidates(find_3_positive(targets)[i],
                                      history[n].matched[i][m]) # {}
                  /\ targets[history[n].matched[i][m].gt][IMG] = history[n].matched[i][m].b

\* a call of ComputeLossOTA whose matches come from both images, on a layer that
\* does not hold every candidate
C21_Witness ==
    /\ loss_class = "ComputeLossOTA"
    /\ Len(history) >= 1
    /\ \E i \in Layers : \E m, m2 \in 1..Len(history[1].matched[i]) :
          /\ history[1].matched[i][m].b = 0
          /\ history[1].matched[i][m2].b = 1
          /\ Len(history[1].matched[i]) < Len(find_3_positive(targets)[i])

\* the box (cx, cy, w, h) of ground truth k
BoxOf(k) == << targets[k][CX], targets[k][CY], targets[k][GW], targets[k][GH] >>

\* C23: in every match of ComputeLossOTA.build_targets the target box is the
\* encoded box of the ground truth the match is paired with: the ground truth
\* the box was encoded from (k) has the box of the ground truth that supplies
\* the class and the angle labels (gt).
C23_BoxOfPairedGroundTruth ==
    loss_class = "ComputeLossOTA" =>
        \A n \in 1..Len(history) : \A i \in Layers :
            \A m \in 1..Len(history[n].matched[i]) :
                BoxOf(history[n].matched[i][m].k) = BoxOf(history[n].matched[i][m].gt)

\* C29: in the matched set of a layer no position (image, anchor, row, col)
\* occurs more than once, so the indexed write of the objectness target has one
\* value per position.
C29_PositionsDistinct ==
    \A n \in 1..Len(history) : \A i \in Layers :
        \A m, m2 \in 1..Len(history[n].matched[i]) :
            Pos(history[n].matched[i][m]) = Pos(history[n].matched[i][m2]) => m = m2

\* the sum over the layers i..nl of obji[i] * bal[i]
RECURSIVE WeightedObjSum(_, _, _)
WeightedObjSum(obji, bal, i) ==
    IF i > Len(obji) THEN Rat(0, 1)
    ELSE RAdd(RMul(obji[i], bal[i]), WeightedObjSum(obji, bal, i + 1))

\* C30: with autobalance on, every call weights the objectness loss of each
\* layer with the balance the layer had when the call started: the moving
\* average of a layer is written after the layer's loss was weighted and the
\* division by the reference layer's value comes after all layers, so what a
\* call writes to balance is read by later calls only.
C30_BalanceAtCallStart ==
    [][ autobalance =>
          /\ Len(history') = Len(history) + 1
          /\ history'[Len(history')].before = balance
          /\ REq(history'[Len(history')].sums[2],
                 WeightedObjSum(history'[Len(history')].obji, balance, 1)) ]_vars

\* a second call with autobalance on started from a balance the first call had
\* moved, and its objectness sum is the one of the moved balance, not of the
\* constructed one
C30_Witness ==
    /\ autobalance
    /\ Len(history) = 2
    /\ history[1].before = BalanceTable(nl)
    /\ ~REq(history[2].before[1], history[1].before[1])
    /\ REq(history[2].sums[2], WeightedObjSum(history[2].obji, history[2].before, 1))
    /\ ~REq(history[2].sums[2], WeightedObjSum(history[2].obji, history[1].before, 1))

\* C26: in ComputeLossAuxOTA the box loss of the auxiliary matches of a layer
\* is computed against the encoded target boxes build_targets2 returned for
\* them, as the box loss of the lead matches is against theirs.
C26_AuxBoxTarget ==
    loss_class = "ComputeLossAuxOTA" =>
        \A n \in 1..Len(history) : \A i \in Layers :
            /\ history[n].selected_tbox[i] = SelectedTbox(history[n].matched[i])
            /\ history[n].selected_tbox_aux[i] = SelectedTbox(history[n].matched_aux[i])

---------------------------------------------------------------------------
(* Properties of SigmoidBin.                                               *)

\* C13: length is bin_count + 1 for every construction; forward and
\* training_loss raise the assertion when the last dimension of the prediction
\* differs from length, training_loss also when prediction and target differ in
\* their first dimension, and a call that raised returns no result.
C13_FailFast ==
    sigmoid_bin # <<>> =>
        /\ sigmoid_bin.length = sigmoid_bin.bin_count + 1
        /\ bin_call # <<>> =>
              /\ Len(bin_call.row) # sigmoid_bin.length
                    => bin_call.status = "AssertionError"
              /\ (bin_call.op = "training_loss" /\ bin_call.rows[1] # bin_call.rows[2])
                    => bin_call.status = "AssertionError"
              /\ bin_call.status = "AssertionError"
                    => /\ "result" \notin DOMAIN bin_call
                       /\ "loss" \notin DOMAIN bin_call
                       /\ \/ Len(bin_call.row) # sigmoid_bin.length
                          \/ bin_call.op = "training_loss"
                                /\ bin_call.rows[1] # bin_call.rows[2]

\* a training_loss call on a prediction one entry too long raised the assertion
C13_Witness ==
    /\ sigmoid_bin # <<>>
    /\ bin_call # <<>>
    /\ bin_call.op = "training_loss"
    /\ Len(bin_call.row) = sigmoid_bin.length + 1
    /\ bin_call.rows[1] = bin_call.rows[2]
    /\ bin_call.status = "AssertionError"

\* the bins training_loss can choose for target v
NearestBins(v) == ArgMin(DiffBinTarget(sigmoid_bin, v))

\* the regression offset forward adds to the bin center
ForwardOffset ==
    IF sigmoid_bin.use_fw_regression THEN ForwardReg(sigmoid_bin, bin_call.row) ELSE 0

\* C14: for a target v strictly inside [min, max], training_loss chooses a bin
\* whose center is within step/2 of v; forward on a prediction whose arg-max
\* bin is that bin returns a value within step/2 plus the regression offset of
\* v, the offset being at most reg_scale * step / 2 for pred[..., 0] in [0, 1],
\* and what forward returns lies in [min, max].
C14_RoundTrip ==
    (sigmoid_bin # <<>> /\ bin_call # <<>>) =>
        /\ (/\ bin_call.op = "training_loss"
            /\ bin_call.status # "AssertionError"
            /\ sigmoid_bin.min < bin_call.target
            /\ bin_call.target < sigmoid_bin.max)
              => /\ bin_call.status = "ok"
                 /\ bin_call.bin_idx < sigmoid_bin.bin_count
                 /\ 2 * Abs(sigmoid_bin.bins[bin_call.bin_idx + 1] - bin_call.target)
                       <= sigmoid_bin.step
        /\ (bin_call.op = "forward" /\ bin_call.status = "ok")
              => /\ sigmoid_bin.min <= bin_call.result
                 /\ bin_call.result <= sigmoid_bin.max
                 /\ bin_call.row[1] \in 0..2
                       => 2 * Abs(ForwardOffset) <= sigmoid_bin.reg_scale * sigmoid_bin.step
                 /\ \A v \in BinTargets(sigmoid_bin) :
                       (/\ sigmoid_bin.min < v
                        /\ v < sigmoid_bin.max
                        /\ bin_call.bin_idx \in NearestBins(v))
                          => 2 * Abs(bin_call.result - v)
                                <= sigmoid_bin.step + 2 * Abs(ForwardOffset)

\* forward decoded the bin of the target drawn, strictly inside [min, max], and
\* the regression moved the result off the bin center
C14_Witness ==
    /\ sigmoid_bin # <<>>
    /\ bin_call # <<>>
    /\ bin_call.op = "forward"
    /\ bin_call.status = "ok"
    /\ sigmoid_bin.bin_count > 1
    /\ sigmoid_bin.min < bin_input.target
    /\ bin_input.target < sigmoid_bin.max
    /\ bin_call.bin_idx \in NearestBins(bin_input.target)
    /\ bin_call.result # sigmoid_bin.bins[bin_call.bin_idx + 1]
    /\ bin_call.result # bin_input.target

---------------------------------------------------------------------------
(* Properties of construction.                                             *)

\* C15: at construction the balance table is [4.0, 1.0, 0.4] when the head has
\* 3 layers and [4.0, 1.0, 0.25, 0.06, 0.02] for every other layer count.
C15_BalanceTable ==
    (head # <<>> /\ history = <<>>) =>
        IF head.nl = 3
        THEN /\ Len(balance) = 3
             /\ REq(balance[1], Rat(4, 1))
             /\ REq(balance[2], Rat(1, 1))
             /\ REq(balance[3], Rat(4, 10))
        ELSE /\ Len(balance) = 5
             /\ REq(balance[1], Rat(4, 1))
             /\ REq(balance[2], Rat(1, 1))
             /\ REq(balance[3], Rat(25, 100))
             /\ REq(balance[4], Rat(6, 100))
             /\ REq(balance[5], Rat(2, 100))

\* a loss object just constructed on a head of 4 layers
C15_Witness ==
    /\ head # <<>>
    /\ history = <<>>
    /\ head.nl = 4
    /\ Len(balance) = 5

\* C16: the balance vector has exactly one entry per layer, at construction and
\* after every call, and no call fails for want of an entry.
C16_OneBalancePerLayer ==
    head # <<>> =>
        /\ Len(balance) = head.nl
        /\ \A n \in 1..Len(history) : history[n].status = "ok"

=============================================================================
